---- MODULE Spec2Model ----
(***************************************************************************)
(* The AURA dispatch pipeline: prototype resolution over the object store, *)
(* sandboxed execution, persistence of mutations, and the                  *)
(* doesNotUnderstand loop (generate, audit, install, re-issue).            *)
(*                                                                         *)
(*   src/aura/src/core/orchestrator.py       process_message,              *)
(*                                           does_not_understand           *)
(*   src/aura/src/persistence/db_client.py   resolve_and_execute_method,   *)
(*                                           install_method                *)
(*   src/aura/services/execution_sandbox/main.py   execute_code            *)
(*   src/aura/src/core/security.py           PersistenceGuardian.audit     *)
(***************************************************************************)
EXTENDS Integers, Sequences, FiniteSets, TLC

VARIABLES store, links, reqs, sandbox_class, orchestrator, uvm

vars == <<store, links, reqs, sandbox_class, orchestrator, uvm>>

(***************************************************************************)
(* Object identities (document keys).  nil and system are the two objects  *)
(* genesis.py creates; child and other are further keys: documents of      *)
(* their own in the resolution graphs, and keys no document has in the     *)
(* store genesis.py leaves.                                                *)
(***************************************************************************)
nil == 0

system == 1

child == system + 1

other == child + 1

NoObj == 0 - 1

\* An attribute mapping is a function from a finite set of names to values.
EmptyMap == [k \in {} |-> 0]

MapOf(k, v) == [x \in {k} |-> v]

\* dict.get(k, default)
Get(map, k, default) == IF k \in DOMAIN map THEN map[k] ELSE default

\* d[k] = v on a dict
Put(map, k, v) == [x \in DOMAIN map \cup {k} |-> IF x = k THEN v ELSE map[x]]

\* d.pop(k, None) on a dict
Drop(map, k) == [x \in DOMAIN map \ {k} |-> map[x]]

(***************************************************************************)
(* Method bodies.  A body is Python text; the model names each text and    *)
(* gives its abstract syntax: whether ast.parse accepts it, whether it     *)
(* defines a callable under the requested method name, the statements of   *)
(* that function in order, and the value it returns.  For a body that      *)
(* defines no such callable the statements are those of its top level,     *)
(* which exec runs with self in scope.                                     *)
(***************************************************************************)
Body(parses, callable, stmts, ret) ==
    [parses |-> parses, callable |-> callable, stmts |-> stmts, ret |-> ret]

Bodies ==
    [b \in {"greet", "inc", "silent", "flag", "add", "pop", "boom",
            "incboom", "evil", "del", "dunder", "nodef", "garbage",
            "import", "from", "eval", "sock", "imp", "quote", "nested",
            "deep", "incexit", "swap", "bare"} |->
       CASE b = "greet"   -> Body(TRUE, TRUE, <<>>, "hello")
         [] b = "inc"     -> Body(TRUE, TRUE, <<"inc_n", "commit">>, "none")
         [] b = "silent"  -> Body(TRUE, TRUE, <<"inc_n">>, "none")
         [] b = "flag"    -> Body(TRUE, TRUE, <<"commit">>, "none")
         [] b = "add"     -> Body(TRUE, TRUE, <<"set_k", "commit">>, "none")
         [] b = "pop"     -> Body(TRUE, TRUE, <<"pop_n", "commit">>, "none")
         [] b = "boom"    -> Body(TRUE, TRUE, <<"raise">>, "none")
         [] b = "incboom" -> Body(TRUE, TRUE, <<"inc_n", "commit", "raise">>, "none")
         [] b = "evil"    -> Body(TRUE, TRUE, <<"open">>, "hello")
         [] b = "del"     -> Body(TRUE, TRUE, <<"del_k", "commit">>, "none")
         [] b = "dunder"  -> Body(TRUE, TRUE, <<"dunder">>, "hello")
         [] b = "nodef"   -> Body(TRUE, FALSE, <<>>, "none")
         [] b = "garbage" -> Body(FALSE, FALSE, <<>>, "none")
         [] b = "import"  -> Body(TRUE, TRUE, <<"import">>, "hello")
         [] b = "from"    -> Body(TRUE, TRUE, <<"from">>, "hello")
         [] b = "eval"    -> Body(TRUE, TRUE, <<"eval">>, "hello")
         [] b = "sock"    -> Body(TRUE, TRUE, <<"sock">>, "hello")
         [] b = "imp"     -> Body(TRUE, TRUE, <<"imp">>, "hello")
         [] b = "quote"   -> Body(TRUE, TRUE, <<"quote">>, "hello")
         [] b = "nested"  -> Body(FALSE, FALSE, <<>>, "none")
         [] b = "deep"    -> Body(TRUE, TRUE, <<"raise">>, "none")
         [] b = "incexit" -> Body(TRUE, TRUE, <<"inc_n", "commit", "exit">>, "none")
         [] b = "swap"    -> Body(TRUE, TRUE, <<"peek", "mark">>, "seen")
         [] b = "bare"    -> Body(TRUE, FALSE, <<"inc_n", "commit">>, "none")]

BodyNames == DOMAIN Bodies

\* What ast.parse raises on a body, called from the audit of the nesting-th
\* process_message call of a request.  The parser builds the tree within
\* what the interpreter's recursion limit leaves above the frames already on
\* the stack, and every re-issue puts two more frames under the audit:
\*   garbage  def f(self: return        not Python: SyntaxError
\*   nested   def f(self): return 1+1+...+1, 3000 terms: valid Python that
\*            the parser gives up on with RecursionError at any depth
\*   deep     def f(self): raise ValueError(1+1+...+1), with as many terms
\*            as the parser still accepts under the audit of a first call:
\*            under the audit of a re-issued call it gives up with
\*            RecursionError
ParseError(b, nesting) ==
    CASE b = "garbage" -> "SyntaxError"
      [] b = "nested"  -> "RecursionError"
      [] b = "deep"    -> IF nesting > 1 THEN "RecursionError" ELSE "none"
      [] OTHER         -> "none"

(***************************************************************************)
(* The AST nodes of one statement, as ast.walk meets them: a node is its   *)
(* type and the identifier it carries (Name.id, Attribute.attr).           *)
(*   inc_n   self.attributes['n'] = self.attributes.get('n', 0) + 1        *)
(*   set_k   self.attributes['k'] = 1                                      *)
(*   pop_n   self.attributes.pop('n', None)                                *)
(*   del_k   del self.attributes['k']                                      *)
(*   commit  self._p_changed = True                                        *)
(*   raise   raise ValueError('boom')                                      *)
(*   open    open('/etc/passwd').read()                                    *)
(*   dunder  self.__class__.__name__                                       *)
(*   import  import os                                                     *)
(*   from    from os import path                                           *)
(*   eval    eval('1')                                                     *)
(*   sock    self.socket                                                   *)
(*   imp     __import__('os')                                              *)
(*   quote   'open'                                                        *)
(*   exit    raise SystemExit(1)                                           *)
(*   peek    seen = getattr(type(self), 'seen', None)                      *)
(*   mark    type(self).seen = 'hello'                                     *)
(* A Constant node is shown with its value, an arg node with its name.     *)
(***************************************************************************)
Node(type, id) == [type |-> type, id |-> id]

StmtNodes(st) ==
    CASE st = "inc_n"  -> {Node("Assign", ""), Node("Name", "self"),
                           Node("Attribute", "attributes"), Node("Attribute", "get")}
      [] st = "set_k"  -> {Node("Assign", ""), Node("Name", "self"),
                           Node("Attribute", "attributes")}
      [] st = "pop_n"  -> {Node("Expr", ""), Node("Name", "self"),
                           Node("Attribute", "attributes"), Node("Attribute", "pop")}
      [] st = "del_k"  -> {Node("Delete", ""), Node("Name", "self"),
                           Node("Attribute", "attributes")}
      [] st = "commit" -> {Node("Assign", ""), Node("Name", "self"),
                           Node("Attribute", "_p_changed")}
      [] st = "raise"  -> {Node("Raise", ""), Node("Name", "ValueError")}
      [] st = "open"   -> {Node("Expr", ""), Node("Name", "open"),
                           Node("Attribute", "read")}
      [] st = "dunder" -> {Node("Expr", ""), Node("Name", "self"),
                           Node("Attribute", "__class__"), Node("Attribute", "__name__")}
      [] st = "import" -> {Node("Import", ""), Node("alias", "os")}
      [] st = "from"   -> {Node("ImportFrom", "os"), Node("alias", "path")}
      [] st = "eval"   -> {Node("Expr", ""), Node("Call", ""), Node("Name", "eval"),
                           Node("Constant", "1")}
      [] st = "sock"   -> {Node("Expr", ""), Node("Name", "self"),
                           Node("Attribute", "socket")}
      [] st = "imp"    -> {Node("Expr", ""), Node("Call", ""), Node("Name", "__import__"),
                           Node("Constant", "os")}
      [] st = "quote"  -> {Node("Expr", ""), Node("Constant", "open")}
      [] st = "exit"   -> {Node("Raise", ""), Node("Call", ""), Node("Name", "SystemExit"),
                           Node("Constant", "1")}
      [] st = "peek"   -> {Node("Assign", ""), Node("Name", "seen"), Node("Call", ""),
                           Node("Name", "getattr"), Node("Name", "type"),
                           Node("Name", "self"), Node("Constant", "seen")}
      [] st = "mark"   -> {Node("Assign", ""), Node("Attribute", "seen"), Node("Call", ""),
                           Node("Name", "type"), Node("Name", "self"),
                           Node("Constant", "hello")}

AstNodes(b) ==
    {Node("Module", ""), Node("FunctionDef", "")}
      \cup UNION {StmtNodes(Bodies[b].stmts[i]) : i \in 1..Len(Bodies[b].stmts)}

\* PersistenceGuardian.__init__: the forbidden node types and identifiers.
denylist == {"Import", "ImportFrom", "Delete"}

name_denylist == {"open", "eval", "exec", "exit", "quit", "__import__",
                  "os", "sys", "subprocess", "shutil", "socket"}

\* PersistenceGuardian.audit: TRUE when the code is safe.
audit(code_string) ==
    IF ~Bodies[code_string].parses THEN FALSE
    ELSE \A node \in AstNodes(code_string) :
            /\ node.type \notin denylist
            /\ ~(node.type = "Name" /\ node.id \in name_denylist)
            /\ ~(node.type = "Attribute" /\ node.id \in name_denylist)

\* PersistenceGuardian.audit catches SyntaxError only: any other exception of
\* ast.parse leaves audit, and does_not_understand and process_message with
\* it, as an exception.
auditRaises(code_string, nesting) ==
    ParseError(code_string, nesting) \notin {"none", "SyntaxError"}

(***************************************************************************)
(* The execution sandbox.  SandboxObject holds the attribute mapping and   *)
(* the _p_changed flag; a statement changes them or raises.  Every         *)
(* instance is of the one class SandboxObject of the sandbox process:      *)
(* sandbox_class holds the attributes set on that class, which stay from   *)
(* one call of execute_code to the next.  seen is the body's local         *)
(* variable of that name.                                                  *)
(***************************************************************************)
SandboxObject(initial_state) ==
    [attributes |-> initial_state, p_changed |-> FALSE, raised |-> FALSE,
     escaped |-> FALSE, type |-> sandbox_class, seen |-> "none"]

ExecStmt(st, self) ==
    CASE st = "inc_n"  -> [self EXCEPT !.attributes =
                              Put(self.attributes, "n", Get(self.attributes, "n", 0) + 1)]
      [] st = "set_k"  -> [self EXCEPT !.attributes = Put(self.attributes, "k", 1)]
      [] st = "pop_n"  -> [self EXCEPT !.attributes = Drop(self.attributes, "n")]
      [] st = "del_k"  -> IF "k" \in DOMAIN self.attributes
                          THEN [self EXCEPT !.attributes = Drop(self.attributes, "k")]
                          ELSE [self EXCEPT !.raised = TRUE]
      [] st = "commit" -> [self EXCEPT !.p_changed = TRUE]
      [] st = "raise"  -> [self EXCEPT !.raised = TRUE]
      [] st = "open"   -> self
      [] st = "dunder" -> self
      [] st = "import" -> self
      [] st = "from"   -> self
      [] st = "eval"   -> self
      [] st = "sock"   -> [self EXCEPT !.raised = TRUE]
      [] st = "imp"    -> self
      [] st = "quote"  -> self
      [] st = "exit"   -> [self EXCEPT !.raised = TRUE, !.escaped = TRUE]
      [] st = "peek"   -> [self EXCEPT !.seen = Get(self.type, "seen", "none")]
      [] st = "mark"   -> [self EXCEPT !.type = Put(self.type, "seen", "hello")]

RECURSIVE RunStmts(_, _, _)
RunStmts(stmts, i, self) ==
    IF i > Len(stmts) \/ self.raised THEN self
    ELSE RunStmts(stmts, i + 1, ExecStmt(stmts[i], self))

Response(output, state_changed, final_state, error) ==
    [output |-> output, state_changed |-> state_changed,
     final_state |-> final_state, error |-> error]

\* execute_code left by an exception that "except Exception" does not catch
\* (SystemExit, KeyboardInterrupt, GeneratorExit): the endpoint returns no
\* response body.
Escaped == Response("none", FALSE, EmptyMap, "escaped")

\* An execute_code that runs the body on the payload's own mapping, without
\* the deep copy: what the body did before the exception is in the final
\* state of the failure.
execute_code_in_place(code, object_state) ==
    IF ~Bodies[code].parses THEN Response("none", FALSE, object_state, "error")
    ELSE LET sandbox_self ==
                 RunStmts(Bodies[code].stmts, 1, SandboxObject(object_state))
         IN  IF sandbox_self.escaped THEN Escaped
             ELSE IF sandbox_self.raised \/ ~Bodies[code].callable
             THEN Response("none", FALSE, sandbox_self.attributes, "error")
             ELSE Response(IF Bodies[code].ret = "seen" THEN sandbox_self.seen
                           ELSE Bodies[code].ret,
                           sandbox_self.p_changed, sandbox_self.attributes, "none")

\* execute_code: the response to payload {code, object_state}.  exec raises
\* on a body that does not compile; otherwise it runs the body's top level,
\* and the lookup of the method name raises when that left no callable.
execute_code(code, object_state) ==
    LET failure == Response("none", FALSE, object_state, "error")
    IN  IF ~Bodies[code].parses THEN failure
        ELSE LET sandbox_self ==
                     RunStmts(Bodies[code].stmts, 1, SandboxObject(object_state))
             IN  IF sandbox_self.escaped THEN Escaped
                 ELSE IF sandbox_self.raised \/ ~Bodies[code].callable THEN failure
                 ELSE Response(IF Bodies[code].ret = "seen" THEN sandbox_self.seen
                               ELSE Bodies[code].ret,
                               sandbox_self.p_changed, sandbox_self.attributes, "none")

\* The attributes of the class SandboxObject once execute_code has run the
\* payload.
ClassAfter(code, object_state) ==
    IF ~Bodies[code].parses THEN sandbox_class
    ELSE RunStmts(Bodies[code].stmts, 1, SandboxObject(object_state)).type

(***************************************************************************)
(* The object store.  store[o] is the document of key o: its attributes    *)
(* and its methods (name -> body).  links[o] lists the targets of o's      *)
(* outbound PrototypeLinks edges, in the order they were inserted.         *)
(***************************************************************************)
Doc(attributes, methods) == [attributes |-> attributes, methods |-> methods]

\* collection.update with mergeObjects (the server's default, and what
\* install_method asks for): sub-objects are merged key by key, the patch
\* winning; keys the patch does not name stay.
MergeObjects(old, patch) ==
    [k \in DOMAIN old \cup DOMAIN patch |-> IF k \in DOMAIN patch THEN patch[k] ELSE old[k]]

\* The traversal bound of the AQL query: FOR v IN 0..100 OUTBOUND ...
MaxDepth == 100

\* FILTER HAS(v.methods, @method_name)
HasMethod(st, v, method_name) == v \in DOMAIN st /\ method_name \in DOMAIN st[v].methods

(***************************************************************************)
(* FOR v IN 0..100 OUTBOUND @start_node PrototypeLinks FILTER ... LIMIT 1  *)
(* The traversal is depth-first (the default order), emits a vertex when   *)
(* it reaches it, never uses an edge twice on one path (uniqueEdges:       *)
(* path), and does not expand below depth 100.  LIMIT 1 keeps the first    *)
(* emitted vertex that passes the filter.                                  *)
(*                                                                         *)
(* The traversal is written as the server runs it, with an explicit path:  *)
(* path[k] is the k-th vertex of the current path paired with the index of *)
(* the edge taken out of it (0 at the end of the path: none taken yet), so *)
(* the end of the path is at depth Len(path) - 1.  found is the emitted    *)
(* vertex that passed the filter, or NoObj.                                *)
(***************************************************************************)
Cursor(path, found) == [path |-> path, found |-> found]

Arrive(st, method_name, path, v) ==
    IF HasMethod(st, v, method_name) THEN Cursor(path, v)
    ELSE Cursor(Append(path, <<v, 0>>), NoObj)

Exhausted(c) == c.found # NoObj \/ c.path = <<>>

\* One move of the traversal: take the next edge out of the end of the
\* path, or step back when there is none or the depth bound is reached.
Advance(bound, st, lk, method_name, c) ==
    LET n == Len(c.path)
        v == c.path[n][1]
        i == c.path[n][2] + 1
        below == SubSeq(c.path, 1, n - 1)
    IN  IF n - 1 >= bound \/ v \notin DOMAIN lk \/ i > Len(lk[v])
        THEN Cursor(below, NoObj)
        ELSE IF \E k \in 1..(n - 1) : c.path[k] = <<v, i>>
        THEN Cursor(Append(below, <<v, i>>), NoObj)
        ELSE Arrive(st, method_name, Append(below, <<v, i>>), lk[v][i])

\* Up to 2^k moves from c, stopping when the traversal is exhausted.  (The
\* set constructors bind each intermediate cursor to its value.)
RECURSIVE Moves(_, _, _, _, _, _)
Moves(bound, st, lk, method_name, c, k) ==
    IF Exhausted(c) THEN c
    ELSE IF k = 0 THEN Advance(bound, st, lk, method_name, c)
    ELSE CHOOSE e \in {Moves(bound, st, lk, method_name, d, k - 1) :
                         d \in {Moves(bound, st, lk, method_name, c, k - 1)}} : TRUE

\* The traversal run to exhaustion.
RECURSIVE Exhaust(_, _, _, _, _, _)
Exhaust(bound, st, lk, method_name, c, k) ==
    CHOOSE e \in {IF Exhausted(d) THEN d
                  ELSE Exhaust(bound, st, lk, method_name, d, k + 1) :
                    d \in {Moves(bound, st, lk, method_name, c, k)}} : TRUE

TraverseWithin(bound, st, lk, method_name, start_node) ==
    (CHOOSE e \in {Exhaust(bound, st, lk, method_name, c, 0) :
                     c \in {Arrive(st, method_name, <<>>, start_node)}} : TRUE).found

\* The query has no SORT and asks for no order of the edges, so the order in
\* which a run of it takes the edges out of a vertex is the server's: any
\* order of them.  Perms(n) is the orders of n edges, EdgeOrders(lk) the
\* links with the edges out of every vertex in each of their orders.
Perms(n) == {p \in [1..n -> 1..n] : \A i, j \in 1..n : p[i] = p[j] => i = j}

EdgeOrders(lk) ==
    LET branching == {v \in DOMAIN lk : Len(lk[v]) > 1}
        orders == {p \in [branching -> UNION {Perms(Len(lk[v])) : v \in branching}] :
                     \A v \in branching : DOMAIN p[v] = 1..Len(lk[v])}
    IN  {[v \in DOMAIN lk |->
            IF v \in branching THEN [i \in 1..Len(lk[v]) |-> lk[v][p[v][i]]]
            ELSE lk[v]] : p \in orders}

\* A traversal whose depth range is one too wide (0..101).
TraverseTooDeep(st, lk, method_name, start_node) ==
    {TraverseWithin(MaxDepth + 1, st, o, method_name, start_node) : o \in EdgeOrders(lk)}

\* The first rows a run of the query can return: the declaring object it
\* meets first (NoObj: no row), for each order of the edges.
Traverse(st, lk, method_name, start_node) ==
    {TraverseWithin(MaxDepth, st, o, method_name, start_node) : o \in EdgeOrders(lk)}

(***************************************************************************)
(* Requests.  Each request is one top-level process_message call; pc is    *)
(* the await it is suspended at.                                           *)
(*   resolving   db.aql.execute             (resolve_and_execute_method)   *)
(*   executing   http_client.post           (resolve_and_execute_method)   *)
(*   persisting  uvm_objects.update         (resolve_and_execute_method)   *)
(*   generating  cognitive_engine.generate_code   (does_not_understand)    *)
(*   installing  db_client.install_method         (does_not_understand)    *)
(* The awaited call is served by another process (the database, the        *)
(* sandbox), which acts on its own state when the call reaches it and      *)
(* answers afterwards: reply is what it has produced and the coroutine has *)
(* not yet been resumed with, so other requests run between the two.       *)
(* found, code and object_state are the locals source_object_doc['_key'],  *)
(* code_to_execute and source_object_doc['attributes']; result is the      *)
(* sandbox's response; sent is the code of the last payload posted;        *)
(* http_client is the client process_message read from the orchestrator    *)
(* and handed to resolve_and_execute_method.  The re-issue after an        *)
(* installation is a call of process_message from inside                   *)
(* does_not_understand, itself called from inside process_message: outer   *)
(* lists the calls of the request suspended at their re-issue, outermost   *)
(* first, each with what it resolved and what it generated; nesting counts *)
(* the process_message calls of the request that have not returned, and    *)
(* reissued says there is more than one.  A request that has returned      *)
(* (pc = "done") keeps the locals of its last call beside its outcome.     *)
(***************************************************************************)
ReqIds == {"r1", "r2"}

NoResponse == Response("none", FALSE, EmptyMap, "unsent")

Outcome(kind, output, state_changed, error) ==
    [kind |-> kind, output |-> output, state_changed |-> state_changed, error |-> error]

NoOutcome == Outcome("pending", "none", FALSE, "")

Failure(error) == Outcome("error", "none", FALSE, error)

\* process_message left by an exception instead of a return.
Raised(exception) == Outcome("raised", "none", FALSE, exception)

\* What the server of an awaited call has produced.
Reply(kind, found, code, object_state, result_data) ==
    [kind |-> kind, found |-> found, code |-> code, object_state |-> object_state,
     result_data |-> result_data]

NoReply == Reply("none", NoObj, "", EmptyMap, NoResponse)

\* RETURN { obj: v, code: v.methods[@method_name] } for the first vertex that
\* passes the filter: one row, or none.
Rows(st, method_name, v) ==
    IF v = NoObj THEN Reply("rows", NoObj, "", EmptyMap, NoResponse)
    ELSE Reply("rows", v, st[v].methods[method_name], st[v].attributes, NoResponse)

\* The body of the sandbox's HTTP response.
Ran(result_data) == Reply("response", NoObj, "", EmptyMap, result_data)

\* The store has applied the update.
Written == Reply("written", NoObj, "", EmptyMap, NoResponse)

\* The locals of a fresh process_message call of a request whose calls in
\* outer are suspended at their re-issue.
Frame(target, method, outer, http_client) ==
    [pc |-> "resolving", target |-> target, method |-> method,
     http_client |-> http_client,
     found |-> NoObj, code |-> "", object_state |-> EmptyMap, sent |-> "",
     result |-> NoResponse, generated_code |-> "", reply |-> NoReply,
     outer |-> outer, nesting |-> Len(outer) + 1, reissued |-> outer # <<>>,
     outcome |-> NoOutcome]

IdleReq == [Frame(NoObj, "", <<>>, 0) EXCEPT !.pc = "idle", !.nesting = 0]

\* A call suspended at its re-issue.
Suspended(req) == [found |-> req.found, generated_code |-> req.generated_code]

\* A return that tries the message again when generation failed.
RetryGeneration(req, outcome) ==
    IF outcome.error = "Code generation failed" THEN [req EXCEPT !.pc = "resolving"]
    ELSE [req EXCEPT !.pc = "done", !.outcome = outcome, !.reply = NoReply]

Return(req, outcome) == [req EXCEPT !.pc = "done", !.outcome = outcome, !.reply = NoReply]

\* Every re-issue leaves two more coroutine frames on the interpreter's
\* stack (process_message, does_not_understand) until the innermost call
\* returns; the stack holds several hundred of them.  The model follows the
\* requests of one behaviour through MaxReissues re-issues in all.
MaxReissues == 1

\* process_message, line 83: a None result enters does_not_understand, which
\* awaits generate_code.
DoesNotUnderstand(req) == [req EXCEPT !.pc = "generating", !.reply = NoReply]

(***************************************************************************)
(* The Orchestrator's lifecycle.  is_initialized is the flag initialize    *)
(* and shutdown test and set; http_client is None (NoClient) until an      *)
(* initialize makes a client, and is the client made last from then on:    *)
(* shutdown closes it and keeps the reference.  clients lists the clients  *)
(* made so far, each open or closed; db is db_client.db, set by            *)
(* DbClient.initialize and never unset (DbClient.shutdown only prints).    *)
(* calls holds the calls of initialize and shutdown in flight, each at the *)
(* await it is suspended at:                                               *)
(*   connecting  client.db        (DbClient.initialize, from initialize)   *)
(*   closing     transport.aclose (http_client.aclose, from shutdown)      *)
(* cognitive_engine.initialize and DbClient.shutdown hold no await of      *)
(* their own, so a call passes them without being suspended.               *)
(***************************************************************************)
LifecycleCalls == {"c1", "c2"}

\* The most clients the initialize calls of one behaviour make.
MaxClients == 2

NoClient == 0

Lifecycle(is_initialized, http_client, db, clients, calls) ==
    [is_initialized |-> is_initialized, http_client |-> http_client,
     db |-> db, clients |-> clients, calls |-> calls]

\* Orchestrator.__init__
Constructed ==
    Lifecycle(FALSE, NoClient, FALSE, <<>>, [c \in LifecycleCalls |-> "idle"])

\* The orchestrator after the one initialize of start-up.
Initialized ==
    Lifecycle(TRUE, 1, TRUE, <<"open">>, [c \in LifecycleCalls |-> "idle"])

\* initialize up to its await: nothing when the flag is set, otherwise it
\* awaits the database connection.
initialize(c) ==
    /\ orchestrator.calls[c] = "idle"
    /\ \/ orchestrator.is_initialized
       \/ Len(orchestrator.clients)
            + Cardinality({d \in LifecycleCalls : orchestrator.calls[d] = "connecting"})
          < MaxClients
    /\ orchestrator' = IF orchestrator.is_initialized THEN orchestrator
                       ELSE [orchestrator EXCEPT !.calls[c] = "connecting"]
    /\ UNCHANGED <<store, links, reqs, sandbox_class, uvm>>

\* The connection is made and initialize runs to its end (db, a new client,
\* the flag), or the connection raises and initialize leaves by the
\* exception with nothing written.
Connected(c, ok) ==
    /\ orchestrator.calls[c] = "connecting"
    /\ orchestrator' =
         IF ok
         THEN [orchestrator EXCEPT !.db = TRUE,
                                   !.clients = Append(@, "open"),
                                   !.http_client = Len(orchestrator.clients) + 1,
                                   !.is_initialized = TRUE,
                                   !.calls[c] = "idle"]
         ELSE [orchestrator EXCEPT !.calls[c] = "idle"]
    /\ UNCHANGED <<store, links, reqs, sandbox_class, uvm>>

\* shutdown up to its await: nothing when the flag is not set; otherwise
\* aclose marks an open client closed and awaits its transport, and does
\* nothing (and does not suspend) on a client already closed.
shutdown(c) ==
    /\ orchestrator.calls[c] = "idle"
    /\ orchestrator' =
         IF ~orchestrator.is_initialized THEN orchestrator
         ELSE IF orchestrator.http_client = NoClient
         THEN [orchestrator EXCEPT !.is_initialized = FALSE]
         ELSE IF orchestrator.clients[orchestrator.http_client] = "closed"
         THEN [orchestrator EXCEPT !.is_initialized = FALSE]
         ELSE [orchestrator EXCEPT !.clients[orchestrator.http_client] = "closed",
                                   !.calls[c] = "closing"]
    /\ UNCHANGED <<store, links, reqs, sandbox_class, uvm>>

\* aclose returns and shutdown clears the flag.
Closed(c) ==
    /\ orchestrator.calls[c] = "closing"
    /\ orchestrator' = [orchestrator EXCEPT !.is_initialized = FALSE,
                                            !.calls[c] = "idle"]
    /\ UNCHANGED <<store, links, reqs, sandbox_class, uvm>>

\* process_message up to its first await: it raises RuntimeError when
\* http_client is None; otherwise it hands the client it reads now to
\* resolve_and_execute_method, which returns None when db_client.db is not
\* set and awaits the query otherwise.
ProcessMessage(target_id, method_name, outer) ==
    IF orchestrator.http_client = NoClient
    THEN Return(Frame(target_id, method_name, outer, NoClient), Raised("RuntimeError"))
    ELSE IF ~orchestrator.db
    THEN DoesNotUnderstand(Frame(target_id, method_name, outer, orchestrator.http_client))
    ELSE Frame(target_id, method_name, outer, orchestrator.http_client)

Start(r, target_id, method_name) ==
    /\ reqs[r].pc = "idle"
    /\ reqs' = [reqs EXCEPT ![r] = ProcessMessage(target_id, method_name, <<>>)]
    /\ UNCHANGED <<store, links, sandbox_class, orchestrator, uvm>>

\* The database runs the query of a request that awaits it, on the documents
\* and the links it holds at that moment.
Query(r) ==
    /\ reqs[r].pc = "resolving"
    /\ reqs[r].reply = NoReply
    /\ \E v \in Traverse(store, links, reqs[r].method, reqs[r].target) :
          reqs' = [reqs EXCEPT ![r].reply = Rows(store, reqs[r].method, v)]
    /\ UNCHANGED <<store, links, sandbox_class, orchestrator, uvm>>

\* http_client.post is called on the client the call was given: a closed
\* client raises before anything is sent.
PostRaises(req) == orchestrator.clients[req.http_client] = "closed"

\* The rows of the query are handed to resolve_and_execute_method.  No row
\* returns None.  Otherwise the locals are assigned from the first row, the
\* payload is built and posted: a post that raises at the call is caught by
\* the except clause, which returns None with the locals assigned and
\* nothing sent.  None enters does_not_understand.
Resolved(req, rows) ==
    IF rows.found = NoObj THEN DoesNotUnderstand(req)
    ELSE LET read == [req EXCEPT !.found = rows.found,
                                 !.code = rows.code,
                                 !.object_state = rows.object_state,
                                 !.reply = NoReply]
         IN  IF PostRaises(read) THEN DoesNotUnderstand(read)
             ELSE [read EXCEPT !.pc = "executing"]

\* The await of the query ends: with the rows the database produced, or by
\* an exception of aql.execute or of the cursor, which are outside the try
\* and so leave resolve_and_execute_method and every process_message call of
\* the request.
Resolve(r, ok) ==
    /\ reqs[r].pc = "resolving"
    /\ ok => reqs[r].reply # NoReply
    /\ reqs' = [reqs EXCEPT ![r] =
                  IF ok THEN Resolved(reqs[r], reqs[r].reply)
                  ELSE Return(reqs[r], Raised("AQLQueryExecuteError"))]
    /\ UNCHANGED <<store, links, sandbox_class, orchestrator, uvm>>

\* The code the payload carries.
PayloadCode(req) == req.code

\* The sandbox receives the payload of a request that awaits the post and
\* runs execute_code on it: what the body sets on the class SandboxObject is
\* there for the next run from then on.
ExecuteCode(r) ==
    /\ reqs[r].pc = "executing"
    /\ reqs[r].reply = NoReply
    /\ reqs' = [reqs EXCEPT ![r].reply =
                  Ran(execute_code(PayloadCode(reqs[r]), reqs[r].object_state))]
    /\ sandbox_class' = ClassAfter(PayloadCode(reqs[r]), reqs[r].object_state)
    /\ UNCHANGED <<store, links, orchestrator, uvm>>

\* A resolve_and_execute_method that writes the final state back whether or
\* not the response reports a change.
AfterSandboxWritesAlways(req, result_data) ==
    IF result_data.error # "none"
    THEN DoesNotUnderstand([req EXCEPT !.result = result_data])
    ELSE [req EXCEPT !.pc = "persisting", !.result = result_data]

\* What follows the sandbox's answer, up to the next await or the return.
AfterSandbox(req, result_data) ==
    IF result_data.error # "none"
    THEN DoesNotUnderstand([req EXCEPT !.result = result_data])
    ELSE IF result_data.state_changed
    THEN [req EXCEPT !.pc = "persisting", !.result = result_data]
    ELSE Return([req EXCEPT !.result = result_data],
                Outcome("ok", result_data.output, result_data.state_changed, ""))

\* The await of the post ends (a client closed since the post was issued
\* changes nothing for a request already sent).  The transport is
\*   ok    the sandbox has run the body and its response arrives,
\*   fail  the payload has not reached the sandbox (unreachable),
\*   lost  the sandbox has run the body and no response arrives (timeout),
\* and a response that is an HTTP error status (execute_code left by an
\* exception) raises as well.  The except clauses turn every raise into
\* None.
Execute(r, transport) ==
    /\ reqs[r].pc = "executing"
    /\ (transport = "fail") <=> (reqs[r].reply = NoReply)
    /\ LET req == [reqs[r] EXCEPT !.sent = PayloadCode(reqs[r]), !.reply = NoReply]
           result_data == reqs[r].reply.result_data
       IN  reqs' = [reqs EXCEPT ![r] =
                      IF transport # "ok" \/ result_data = Escaped
                      THEN DoesNotUnderstand(req)
                      ELSE AfterSandbox(req, result_data)]
    /\ UNCHANGED <<store, links, sandbox_class, orchestrator, uvm>>

\* A write that replaces the document by one holding the attributes alone.
UpdateReplacingDocument(st, key, updated_attributes) ==
    [st EXCEPT ![key] = Doc(updated_attributes, EmptyMap)]

\* An update that the store acknowledges and drops.
UpdateDropped(st, key, updated_attributes) == st

\* uvm_objects.update({'_key': ..., 'attributes': updated_attributes})
UpdateAttributes(st, key, updated_attributes) ==
    [st EXCEPT ![key].attributes = MergeObjects(st[key].attributes, updated_attributes)]

\* The database applies the update of the mutated attributes of a request
\* that awaits it.
WriteAttributes(r) ==
    /\ reqs[r].pc = "persisting"
    /\ reqs[r].reply = NoReply
    /\ reqs[r].found \in DOMAIN store
    /\ store' = UpdateAttributes(store, reqs[r].found, reqs[r].result.final_state)
    /\ reqs' = [reqs EXCEPT ![r].reply = Written]
    /\ UNCHANGED <<links, sandbox_class, orchestrator, uvm>>

\* The await of that update ends: by its return once the database has
\* applied it, or by an exception (the update refused or not delivered, or
\* applied and its acknowledgement not received), which the except clause
\* turns into None.
Persist(r, ok) ==
    /\ reqs[r].pc = "persisting"
    /\ ok => reqs[r].reply = Written
    /\ reqs' = [reqs EXCEPT ![r] =
                  IF ok
                  THEN Return(reqs[r], Outcome("ok", reqs[r].result.output,
                                               reqs[r].result.state_changed, ""))
                  ELSE DoesNotUnderstand(reqs[r])]
    /\ UNCHANGED <<store, links, sandbox_class, orchestrator, uvm>>

\* A does_not_understand that installs whatever was generated.
AuditSkipped(generated_code) == TRUE

\* does_not_understand, line 113: the audit's verdict on the generated code.
AuditPassed(generated_code) == audit(generated_code)

\* generate_code returns generated_code (the empty string: no usable code);
\* then the audit, up to the await of install_method or the return.
\* install_method returns False without awaiting when db_client.db is not
\* set.
Generate(r, generated_code) ==
    /\ reqs[r].pc = "generating"
    /\ LET req == [reqs[r] EXCEPT !.generated_code = generated_code]
       IN  reqs' = [reqs EXCEPT ![r] =
                      IF generated_code = "" THEN Return(req, Failure("Code generation failed"))
                      ELSE IF auditRaises(generated_code, req.nesting)
                      THEN Return(req, Raised(ParseError(generated_code, req.nesting)))
                      ELSE IF ~AuditPassed(generated_code)
                      THEN Return(req, Failure("Security audit failed"))
                      ELSE IF ~orchestrator.db
                      THEN Return(req, Failure("Method installation failed"))
                      ELSE [req EXCEPT !.pc = "installing"]]
    /\ UNCHANGED <<store, links, sandbox_class, orchestrator, uvm>>

\* An installation that writes the target's document anew, with the methods
\* merged and no attributes.
InstallWholeDocument(st, target_id, method_name, code_string) ==
    [st EXCEPT ![target_id] =
        Doc(EmptyMap, MergeObjects(st[target_id].methods, MapOf(method_name, code_string)))]

\* An installation on the root prototype instead of the target.
InstallOnRoot(st, target_id, method_name, code_string) ==
    [st EXCEPT ![nil].methods =
        MergeObjects(st[nil].methods, MapOf(method_name, code_string))]

\* An installation that replaces the methods mapping instead of merging
\* into it.
InstallReplacingMethods(st, target_id, method_name, code_string) ==
    [st EXCEPT ![target_id].methods = MapOf(method_name, code_string)]

\* An installation that leaves a body the target already has under the
\* method name.
InstallIfAbsent(st, target_id, method_name, code_string) ==
    [st EXCEPT ![target_id].methods =
        MergeObjects(MapOf(method_name, code_string), st[target_id].methods)]

\* uvm_objects.update({'_key': target_id, 'methods': {method_name: code}},
\*                    merge_objects=True)
InstallMethod(st, target_id, method_name, code_string) ==
    [st EXCEPT ![target_id].methods =
        MergeObjects(st[target_id].methods, MapOf(method_name, code_string))]

\* A database that inserts the document when the key of the update has
\* none.
WriteMethodUpserting(r) ==
    /\ reqs[r].pc = "installing"
    /\ reqs[r].reply = NoReply
    /\ store' = [o \in DOMAIN store \cup {reqs[r].target} |->
                   IF o # reqs[r].target THEN store[o]
                   ELSE Doc(IF o \in DOMAIN store THEN store[o].attributes
                            ELSE EmptyMap,
                            MergeObjects(IF o \in DOMAIN store
                                         THEN store[o].methods ELSE EmptyMap,
                                         MapOf(reqs[r].method, reqs[r].generated_code)))]
    /\ reqs' = [reqs EXCEPT ![r].reply = Written]
    /\ UNCHANGED <<links, sandbox_class, orchestrator, uvm>>

\* The database applies the update of install_method of a request that
\* awaits it; it refuses the update of a key that has no document.
WriteMethod(r) ==
    /\ reqs[r].pc = "installing"
    /\ reqs[r].reply = NoReply
    /\ reqs[r].target \in DOMAIN store
    /\ store' = InstallMethod(store, reqs[r].target, reqs[r].method,
                              reqs[r].generated_code)
    /\ reqs' = [reqs EXCEPT ![r].reply = Written]
    /\ UNCHANGED <<links, sandbox_class, orchestrator, uvm>>

\* A does_not_understand that runs the code it has just installed itself,
\* without going back through resolution.
ExecuteGenerated(req) ==
    [Frame(req.target, req.method, Append(req.outer, Suspended(req)), req.http_client)
        EXCEPT !.pc = "executing", !.found = req.target, !.code = req.generated_code]

\* does_not_understand, line 126: the original message is issued again, a
\* process_message call inside this one.
Reissue(req) ==
    ProcessMessage(req.target, req.method, Append(req.outer, Suspended(req)))

\* The re-issues the requests have made.
Reissues ==
    Cardinality({c \in ReqIds \X (1..MaxReissues) : c[2] <= Len(reqs[c[1]].outer)})

\* The await of install_method ends: it returns True once the database has
\* applied the update, and the message is re-issued; it returns False when
\* the update raised (refused or not delivered, or applied and its
\* acknowledgement not received), and does_not_understand returns the
\* failure.
Install(r, ok) ==
    /\ reqs[r].pc = "installing"
    /\ ok => /\ reqs[r].reply = Written
             /\ Reissues < MaxReissues
    /\ reqs' = [reqs EXCEPT ![r] =
                  IF ok THEN Reissue(reqs[r])
                  ELSE Return(reqs[r], Failure("Method installation failed"))]
    /\ UNCHANGED <<store, links, sandbox_class, orchestrator, uvm>>

(***************************************************************************)
(* The generator's reply and what generate_code makes of it.  A reply is   *)
(* the outcome of client.chat: it raised, or it returned a response that   *)
(* is a mapping with a message mapping or is not; the message's content is *)
(* absent, not a string, a text that is not JSON, a JSON value that is not *)
(* an object, or a JSON object; the object's python_code is absent, not a  *)
(* string, or a string: a text, padded with whitespace or not.  A text     *)
(* content that is not JSON carries its text as well.                      *)
(***************************************************************************)
LlmResponse(raised, mapping, content, python_code, padded, text) ==
    [raised |-> raised, mapping |-> mapping, content |-> content,
     python_code |-> python_code, padded |-> padded, text |-> text]

\* code.strip(): the text without the whitespace around it.
Strip(response) == response.text

\* A parse that takes a content that is not JSON as the code itself.
parseLenient(response) ==
    IF ~response.mapping THEN ""
    ELSE IF response.content = "not_string" THEN ""
    ELSE IF response.content = "text" THEN Strip(response)
    ELSE IF response.content = "json_value" THEN ""
    ELSE LET python_code == IF response.content = "absent" THEN "absent"
                            ELSE response.python_code
         IN  IF python_code = "string" /\ Strip(response) # ""
             THEN Strip(response)
             ELSE ""

\* The four refusals before the object is read are the AttributeError of
\* .get on what is no mapping, the TypeError and the JSONDecodeError of
\* json.loads, and the AttributeError of .get on what is no JSON object; an
\* absent content is read as '{}', an absent python_code as "".
parse_code_from_response(response) ==
    IF ~response.mapping THEN ""
    ELSE IF response.content = "not_string" THEN ""
    ELSE IF response.content = "text" THEN ""
    ELSE IF response.content = "json_value" THEN ""
    ELSE LET python_code == IF response.content = "absent" THEN "absent"
                            ELSE response.python_code
         IN  IF python_code = "string" /\ Strip(response) # ""
             THEN Strip(response)
             ELSE ""

\* generate_code, from client.chat on: an exception of the call or of the
\* parse gives the empty string.
generate_code(response) ==
    IF response.raised THEN "" ELSE parse_code_from_response(response)

\* does_not_understand from the reply of the generator on.
GenerateCode(r, response) == Generate(r, generate_code(response))

(***************************************************************************)
(* UvmObject: the in-memory object, its attribute protocol and its         *)
(* document form.                                                          *)
(***************************************************************************)
None == "None"

\* The names that start with an underscore.
Underscored == {"_id", "_key", "_p_changed", "_tmp"}

\* The names normal lookup finds on the class.
ClassMembers == {"to_doc", "from_doc"}

\* The instance dictionary __init__ fills; attributes and methods are
\* mappings, the empty one standing for the default.
UvmObject(doc_id, key, attributes, methods) ==
    [field \in {"_id", "_key", "attributes", "methods", "_p_changed"} |->
        CASE field = "_id" -> doc_id
          [] field = "_key" -> key
          [] field = "attributes" -> attributes
          [] field = "methods" -> methods
          [] field = "_p_changed" -> FALSE]

\* What __getattr__ gives: a value of the attribute mapping, the placeholder
\* of a method, or AttributeError.
__getattr__(self, name) ==
    IF name \in DOMAIN self["attributes"] THEN "value"
    ELSE IF name \in DOMAIN self["methods"] THEN "placeholder"
    ELSE "AttributeError"

\* The read self.name: normal lookup first (a field of the instance, then a
\* member of the class), __getattr__ only when it finds nothing.
getattr(self, name) ==
    IF name \in DOMAIN self THEN "field"
    ELSE IF name \in ClassMembers THEN "member"
    ELSE __getattr__(self, name)

\* __setattr__ that stores every name as a field of the instance.
setattrAsField(self, name, value) == Put(self, name, value)

__setattr__(self, name, value) ==
    IF name \in Underscored \/ name \in {"attributes", "methods"}
    THEN Put(self, name, value)
    ELSE [self EXCEPT !["attributes"] = Put(@, name, value),
                      !["_p_changed"] = TRUE]

\* if self._key
Truthy(key) == key \notin {None, ""}

\* to_doc that carries the stable id as well.
to_doc_with_id(self) ==
    LET doc == [attributes |-> self["attributes"], methods |-> self["methods"]]
        keyed == IF Truthy(self["_key"]) THEN Put(doc, "_key", self["_key"])
                 ELSE doc
    IN  Put(keyed, "_id", self["_id"])

to_doc(self) ==
    LET doc == [attributes |-> self["attributes"], methods |-> self["methods"]]
    IN  IF Truthy(self["_key"]) THEN Put(doc, "_key", self["_key"]) ELSE doc

from_doc(doc) ==
    UvmObject(Get(doc, "_id", None), Get(doc, "_key", None),
              Get(doc, "attributes", EmptyMap), Get(doc, "methods", EmptyMap))

\* The object under study and the last operation on it.
LastOp(op, name, value, result) ==
    [op |-> op, name |-> name, value |-> value, result |-> result]

NoUvm == [self |-> UvmObject(None, None, EmptyMap, EmptyMap),
          last |-> LastOp("none", "none", "none", "none")]

\* self.name
Read(name) ==
    /\ uvm' = [self |-> uvm.self,
               last |-> LastOp("get", name, "none", getattr(uvm.self, name))]
    /\ UNCHANGED <<store, links, reqs, sandbox_class, orchestrator>>

\* self.name = value
Assign(name, value) ==
    /\ uvm' = [self |-> __setattr__(uvm.self, name, value),
               last |-> LastOp("set", name, value, "none")]
    /\ UNCHANGED <<store, links, reqs, sandbox_class, orchestrator>>

\* UvmObject.from_doc(self.to_doc())
RoundTrip ==
    /\ uvm' = [self |-> from_doc(to_doc(uvm.self)),
               last |-> LastOp("from_doc", "none", "none", "none")]
    /\ UNCHANGED <<store, links, reqs, sandbox_class, orchestrator>>

\* uvm_objects.get on a key that has a document: the document with the _id
\* and _key the store gives it.
StoredDocument(st, object_id) ==
    [_id |-> <<"UvmObjects", object_id>>, _key |-> object_id,
     attributes |-> st[object_id].attributes, methods |-> st[object_id].methods]

\* get_object: None when db_client.db is not set or the key has no
\* document, otherwise the UvmObject made from the document.
get_object(db, st, object_id) ==
    IF ~db THEN None
    ELSE IF object_id \notin DOMAIN st THEN None
    ELSE from_doc(StoredDocument(st, object_id))

(***************************************************************************)
(* Concurrent dispatch: two requests, each sent once, interleaved at every *)
(* await.                                                                  *)
(***************************************************************************)
Targets == {nil, system, other}

MethodNames == {"greet", "bump"}

GenBodies == {"", "greet", "inc", "boom", "evil"}

Step(r) ==
    \/ Query(r)
    \/ \E ok \in BOOLEAN : Resolve(r, ok)
    \/ ExecuteCode(r)
    \/ \E transport \in {"ok", "fail", "lost"} : Execute(r, transport)
    \/ WriteAttributes(r)
    \/ \E ok \in BOOLEAN : Persist(r, ok)
    \/ \E g \in GenBodies : Generate(r, g)
    \/ WriteMethod(r)
    \/ \E ok \in BOOLEAN : Install(r, ok)

Next ==
    \E r \in ReqIds :
       \/ \E t \in Targets, m \in MethodNames : Start(r, t, m)
       \/ Step(r)

\* The store genesis.initialize_database leaves: nil and system, both with
\* no attributes and no methods, and the one link system -> nil.
GenesisStore == [o \in {nil, system} |-> Doc(EmptyMap, EmptyMap)]

GenesisLinks == [o \in {nil, system} |-> IF o = system THEN <<nil>> ELSE <<>>]

\* After genesis and the initialize of start-up, no request received yet.
Init ==
    /\ store = GenesisStore
    /\ links = GenesisLinks
    /\ reqs = [r \in ReqIds |-> IdleReq]
    /\ sandbox_class = EmptyMap
    /\ orchestrator = Initialized
    /\ uvm = NoUvm

Spec == Init /\ [][Next]_vars

(***************************************************************************)
(* Resolution alone.  The AQL query is a function of what UvmObjects and   *)
(* PrototypeLinks hold, so it is given every prototype graph as its input, *)
(* not only the one genesis.py leaves: every graph on four objects         *)
(* with at most MaxParents outbound links per object and MaxLinks links in *)
(* all, cycles included, with any set of objects declaring greet; and      *)
(* chains system -> 2 -> 3 -> ... of MaxDepth + ChainExtra links, open or  *)
(* closed into a cycle, with at most one declaring object.                 *)
(***************************************************************************)
MaxParents == 2

MaxLinks == 4

ChainExtra == 2

GraphNodes == {system, child, other, other + 1}

ParentSeqs(v) ==
    {ps \in UNION {[1..n -> GraphNodes \ {v}] : n \in 0..MaxParents} :
        \A i, j \in 1..Len(ps) : ps[i] = ps[j] => i = j}

ChainNodes == system..(system + MaxDepth + ChainExtra)

Declaring(nodes, decl) ==
    [o \in nodes |-> Doc(EmptyMap, IF o \in decl THEN MapOf("greet", "greet") ELSE EmptyMap)]

\* Every graph on four objects, with any set of them declaring greet.
InitGraphs ==
    \E p1 \in ParentSeqs(system), p2 \in ParentSeqs(child),
       p3 \in ParentSeqs(other), p4 \in ParentSeqs(other + 1) :
      /\ Len(p1) + Len(p2) + Len(p3) + Len(p4) <= MaxLinks
      /\ links = [o \in GraphNodes |->
                    CASE o = system -> p1 [] o = child -> p2
                      [] o = other  -> p3 [] OTHER     -> p4]
      /\ \E decl \in SUBSET GraphNodes : store = Declaring(GraphNodes, decl)

\* Every chain, open or closed, with at most one declaring object.
InitChains ==
    \E decl \in {{}} \cup {{d} : d \in ChainNodes}, closed \in BOOLEAN :
      /\ store = Declaring(ChainNodes, decl)
      /\ links = [o \in ChainNodes |->
                    IF o < system + MaxDepth + ChainExtra THEN <<o + 1>>
                    ELSE IF closed THEN <<system>> ELSE <<>>]

InitResolve ==
    /\ InitGraphs \/ InitChains
    /\ reqs = [r \in ReqIds |-> IdleReq]
    /\ sandbox_class = EmptyMap
    /\ orchestrator = Initialized
    /\ uvm = NoUvm

NextResolve ==
    \/ Start("r1", system, "greet")
    \/ Query("r1")
    \/ \E ok \in BOOLEAN : Resolve("r1", ok)

SpecResolve == InitResolve /\ [][NextResolve]_vars

(***************************************************************************)
(* Resolution twice: two dispatches of greet to system on one graph.       *)
(***************************************************************************)
InitTwice ==
    /\ InitGraphs
    /\ reqs = [r \in ReqIds |-> IdleReq]
    /\ sandbox_class = EmptyMap
    /\ orchestrator = Initialized
    /\ uvm = NoUvm

NextTwice ==
    \E r \in ReqIds :
       \/ Start(r, system, "greet")
       \/ Query(r)
       \/ Resolve(r, TRUE)

SpecTwice == InitTwice /\ [][NextTwice]_vars

(***************************************************************************)
(* Execution alone.  execute_code is a function of the payload posted to   *)
(* it, so it is given every code and object_state as its input: one        *)
(* dispatch of system's method bump, for every body and every attribute    *)
(* mapping over the names n and k.                                         *)
(***************************************************************************)
MaxVal == 1

AttrMaps == UNION {[ks -> 0..MaxVal] : ks \in SUBSET {"n", "k"}}

InitExec ==
    /\ \E c \in BodyNames, attributes \in AttrMaps :
         store = [o \in {nil, system} |->
                    IF o = nil THEN Doc(EmptyMap, EmptyMap)
                    ELSE Doc(attributes, MapOf("bump", c))]
    /\ links = [o \in {nil, system} |-> IF o = nil THEN <<>> ELSE <<nil>>]
    /\ reqs = [r \in ReqIds |-> IdleReq]
    /\ sandbox_class = EmptyMap
    /\ orchestrator = Initialized
    /\ uvm = NoUvm

NextExec ==
    \/ Start("r1", system, "bump")
    \/ Query("r1")
    \/ Resolve("r1", TRUE)
    \/ ExecuteCode("r1")
    \/ \E transport \in {"ok", "fail", "lost"} : Execute("r1", transport)
    \/ WriteAttributes("r1")
    \/ \E ok \in BOOLEAN : Persist("r1", ok)

SpecExec == InitExec /\ [][NextExec]_vars

(***************************************************************************)
(* Execution alone with the sandbox reachable and the store writable: the  *)
(* post gets whatever execute_code gives and the attribute write succeeds. *)
(***************************************************************************)
NextAnswered ==
    \/ Start("r1", system, "bump")
    \/ Query("r1")
    \/ Resolve("r1", TRUE)
    \/ ExecuteCode("r1")
    \/ Execute("r1", "ok")
    \/ WriteAttributes("r1")
    \/ Persist("r1", TRUE)

SpecAnswered == InitExec /\ [][NextAnswered]_vars

(***************************************************************************)
(* Two dispatches of bump to system, served by one sandbox process, the    *)
(* generator returning a body that returns a constant, one that writes the *)
(* attributes or one that uses the class of self.                          *)
(***************************************************************************)
SandboxBodies == {"greet", "inc", "swap"}

InitSandbox ==
    /\ store = GenesisStore
    /\ links = GenesisLinks
    /\ reqs = [r \in ReqIds |-> IdleReq]
    /\ sandbox_class = EmptyMap
    /\ orchestrator = Initialized
    /\ uvm = NoUvm

NextSandbox ==
    \E r \in ReqIds :
       \/ Start(r, system, "bump")
       \/ Query(r)
       \/ Resolve(r, TRUE)
       \/ ExecuteCode(r)
       \/ Execute(r, "ok")
       \/ WriteAttributes(r)
       \/ Persist(r, TRUE)
       \/ \E g \in SandboxBodies : Generate(r, g)
       \/ WriteMethod(r)
       \/ Install(r, TRUE)

SpecSandbox == InitSandbox /\ [][NextSandbox]_vars

(***************************************************************************)
(* The lifecycle: the orchestrator as constructed, then calls of          *)
(* initialize and shutdown and dispatches, interleaved at every await.     *)
(***************************************************************************)
InitLifecycle ==
    /\ store = GenesisStore
    /\ links = GenesisLinks
    /\ reqs = [r \in ReqIds |-> IdleReq]
    /\ sandbox_class = EmptyMap
    /\ orchestrator = Constructed
    /\ uvm = NoUvm

NextLifecycle ==
    \/ \E c \in LifecycleCalls :
          \/ initialize(c)
          \/ \E ok \in BOOLEAN : Connected(c, ok)
          \/ shutdown(c)
          \/ Closed(c)
    \/ \E r \in ReqIds :
          \/ Start(r, system, "bump")
          \/ Query(r)
          \/ Resolve(r, TRUE)
          \/ ExecuteCode(r)
          \/ Execute(r, "ok")
          \/ WriteAttributes(r)
          \/ Persist(r, TRUE)
          \/ \E g \in {"", "inc"} : Generate(r, g)
          \/ WriteMethod(r)
          \/ Install(r, TRUE)

SpecLifecycle == InitLifecycle /\ [][NextLifecycle]_vars

(***************************************************************************)
(* The UvmObject alone: reads, assignments and the round trip through its  *)
(* document form, in any order.                                            *)
(***************************************************************************)
UvmIds == {None, "UvmObjects/k1"}

UvmKeys == {None, "k1"}

UvmAttributes == UNION {[ks -> 0..MaxVal] : ks \in SUBSET {"n"}}

UvmMethods == {EmptyMap, MapOf("greet", "greet")}

ReadNames ==
    {"n", "greet", "missing", "to_doc", "attributes", "_key", "_tmp"}

AssignNames ==
    {"n", "missing", "to_doc", "attributes", "methods", "_p_changed", "_tmp"}

ValuesFor(name) ==
    CASE name = "attributes" -> UvmAttributes
      [] name = "methods" -> UvmMethods
      [] name = "_p_changed" -> BOOLEAN
      [] OTHER -> 0..MaxVal

InitUvm ==
    /\ store = GenesisStore
    /\ links = GenesisLinks
    /\ reqs = [r \in ReqIds |-> IdleReq]
    /\ sandbox_class = EmptyMap
    /\ orchestrator = Initialized
    /\ uvm \in {[self |-> UvmObject(doc_id, key, attributes, methods),
                 last |-> LastOp("none", "none", "none", "none")] :
                    doc_id \in UvmIds, key \in UvmKeys,
                    attributes \in UvmAttributes, methods \in UvmMethods}

NextUvm ==
    \/ \E name \in ReadNames : Read(name)
    \/ \E name \in AssignNames : \E value \in ValuesFor(name) :
          Assign(name, value)
    \/ RoundTrip

SpecUvm == InitUvm /\ [][NextUvm]_vars

(***************************************************************************)
(* Generation from the generator's reply: every dispatch, with every reply *)
(* of the generator and both results of the installation.                  *)
(***************************************************************************)
ReplyTexts == {"", "greet", "evil"}

LlmResponses ==
    {LlmResponse(TRUE, FALSE, "absent", "absent", FALSE, "")}
    \cup {LlmResponse(FALSE, FALSE, "absent", "absent", FALSE, "")}
    \cup {LlmResponse(FALSE, TRUE, content, "absent", FALSE, "") :
              content \in {"absent", "not_string", "json_value", "json_object"}}
    \cup {LlmResponse(FALSE, TRUE, "text", "absent", padded, text) :
              padded \in BOOLEAN, text \in ReplyTexts}
    \cup {LlmResponse(FALSE, TRUE, "json_object", "not_string", FALSE, "")}
    \cup {LlmResponse(FALSE, TRUE, "json_object", "string", padded, text) :
              padded \in BOOLEAN, text \in ReplyTexts}

NextGenerate ==
    \E r \in ReqIds :
       \/ \E t \in Targets, m \in MethodNames : Start(r, t, m)
       \/ Query(r)
       \/ Resolve(r, TRUE)
       \/ \E response \in LlmResponses : GenerateCode(r, response)
       \/ WriteMethod(r)
       \/ \E ok \in BOOLEAN : Install(r, ok)

SpecGenerate == Init /\ [][NextGenerate]_vars

(***************************************************************************)
(* Generation and audit alone: every dispatch, with the generator          *)
(* returning no code or any of the bodies.                                 *)
(***************************************************************************)
NextAudit ==
    \E r \in ReqIds :
       \/ \E t \in Targets, m \in MethodNames : Start(r, t, m)
       \/ Query(r)
       \/ Resolve(r, TRUE)
       \/ \E g \in BodyNames \cup {""} : Generate(r, g)

SpecAudit == Init /\ [][NextAudit]_vars

(***************************************************************************)
(* The audit among dispatches: two dispatches of bump to system, every     *)
(* external call of which returns, the generator returning the greeting, a *)
(* body the audit fails, or the body whose expression nests as deep as the *)
(* parser accepts in a first call.                                         *)
(***************************************************************************)
GuardianBodies == {"greet", "evil", "deep"}

NextGuardian ==
    \E r \in ReqIds :
       \/ Start(r, system, "bump")
       \/ Query(r)
       \/ Resolve(r, TRUE)
       \/ ExecuteCode(r)
       \/ Execute(r, "ok")
       \/ \E g \in GuardianBodies : Generate(r, g)
       \/ WriteMethod(r)
       \/ Install(r, TRUE)

SpecGuardian == Init /\ [][NextGuardian]_vars

(***************************************************************************)
(* One request on its own, every external call of which returns: the       *)
(* database answers each query, the sandbox each post, the store performs  *)
(* each attribute write, and the generator returns no code, one of the     *)
(* bodies of GenBodies or the body the parser gives up on.  The request's  *)
(* pending await is answered in the end: the event loop resumes a          *)
(* coroutine whenever the call it awaits has returned.                     *)
(***************************************************************************)
AnsweredBodies == GenBodies \cup {"nested"}

StepAnswered ==
    \/ Query("r1")
    \/ Resolve("r1", TRUE)
    \/ ExecuteCode("r1")
    \/ Execute("r1", "ok")
    \/ WriteAttributes("r1")
    \/ Persist("r1", TRUE)
    \/ \E g \in AnsweredBodies : Generate("r1", g)
    \/ WriteMethod("r1")
    \/ \E ok \in BOOLEAN : Install("r1", ok)

NextSingle ==
    \/ \E t \in Targets, m \in MethodNames : Start("r1", t, m)
    \/ StepAnswered

Fairness == WF_vars(StepAnswered)

FairSpec == Init /\ [][NextSingle]_vars /\ Fairness

(***************************************************************************)
(* Properties of the dispatch pipeline.                                    *)
(***************************************************************************)

\* C1: when the generator returns a body the audit fails, that step ends the
\* dispatch with the outcome "Security audit failed", writes nothing to the
\* store and posts nothing to the sandbox; and a dispatch that has returned
\* takes no further step, so the body is never installed or executed by it.
AuditRejectionIsTerminal ==
    [][\A r \in ReqIds :
         /\ ( /\ reqs[r].pc = "generating"
              /\ reqs'[r] # reqs[r]
              /\ reqs'[r].generated_code # ""
              /\ ~audit(reqs'[r].generated_code) )
            => /\ reqs'[r].pc = "done"
               /\ reqs'[r].outcome = Failure("Security audit failed")
               /\ reqs'[r].sent = reqs[r].sent
               /\ store' = store
         /\ reqs[r].pc = "done" => reqs'[r] = reqs[r]]_vars

AuditRejectionReached ==
    \E r \in ReqIds :
       /\ reqs[r].pc = "done"
       /\ reqs[r].generated_code = "evil"
       /\ reqs[r].outcome = Failure("Security audit failed")
       /\ ~HasMethod(store, reqs[r].target, reqs[r].method)

\* C2: the row a query returns holds the code the declaring object's
\* methods hold in the store when the query runs; a request reaches the
\* sandbox call only from resolution, with the code of that row; that is the
\* code the sandbox runs and the code the request has posted; the only
\* change ever made to an object's methods is the installation, by a request
\* awaiting install_method, of the code it generated, which passed the
\* audit.
OnlyStoredAuditedCodeRuns ==
    [][\A r \in ReqIds :
         /\ ( /\ reqs'[r].reply # reqs[r].reply
              /\ reqs'[r].reply.kind = "rows"
              /\ reqs'[r].reply.found # NoObj )
            => /\ HasMethod(store, reqs'[r].reply.found, reqs[r].method)
               /\ reqs'[r].reply.code
                    = store[reqs'[r].reply.found].methods[reqs[r].method]
         /\ (reqs'[r].pc = "executing" /\ reqs[r].pc # "executing")
            => /\ reqs[r].pc = "resolving"
               /\ reqs[r].reply.kind = "rows"
               /\ reqs'[r].found = reqs[r].reply.found
               /\ reqs'[r].code = reqs[r].reply.code
         /\ ( /\ reqs'[r].reply # reqs[r].reply
              /\ reqs'[r].reply.kind = "response" )
            => reqs'[r].reply.result_data
                 = execute_code(reqs[r].code, reqs[r].object_state)
         /\ (reqs[r].pc = "executing" /\ reqs'[r].pc # "executing")
            => reqs'[r].sent = reqs[r].code
         /\ reqs'[r].pc = "installing" => audit(reqs'[r].generated_code)
         /\ \A o \in DOMAIN store :
              (store'[o].methods # store[o].methods /\ reqs'[r] # reqs[r])
              => /\ reqs[r].pc = "installing"
                 /\ reqs[r].target = o
                 /\ audit(reqs[r].generated_code)
                 /\ store'[o].methods =
                      MergeObjects(store[o].methods,
                                   MapOf(reqs[r].method, reqs[r].generated_code))]_vars

GeneratedCodeRanAfterInstall ==
    \E r \in ReqIds :
       /\ reqs[r].pc = "done"
       /\ reqs[r].reissued
       /\ reqs[r].outcome = Outcome("ok", "hello", FALSE, "")
       /\ reqs[r].sent = "greet"
       /\ reqs[r].found = reqs[r].target
       /\ store[reqs[r].target].methods[reqs[r].method] = "greet"

\* C3: a sandbox response carrying an error ends the dispatch in a failure
\* outcome; the code generator is not invoked because of it.
ExecutionErrorIsTerminal ==
    \A r \in ReqIds :
       reqs[r].result.error = "error"
       => /\ reqs[r].pc = "done"
          /\ reqs[r].outcome.kind = "error"
          /\ reqs[r].generated_code = ""

\* C4: a request whose message was re-issued after an installation never
\* invokes the code generator or install_method again.
ReissueNeverRegenerates ==
    \A r \in ReqIds : reqs[r].reissued => reqs[r].pc \notin {"generating", "installing"}

\* C5: every request that has been received returns in the end, with one
\* outcome that is a success or a failure.
EveryRequestReturns ==
    \A r \in ReqIds :
       (reqs[r].pc = "resolving")
         ~> (reqs[r].pc = "done" /\ reqs[r].outcome.kind \in {"ok", "error"})

\* The objects within k links of the objects in S, and the declaring objects
\* among them.
Parents(lk, v) == IF v \in DOMAIN lk THEN {lk[v][i] : i \in 1..Len(lk[v])} ELSE {}

RECURSIVE Within(_, _, _)
Within(lk, S, k) ==
    IF k <= 0 THEN S
    ELSE IF k = 1 THEN S \cup UNION {Parents(lk, v) : v \in S}
    ELSE LET T == Within(lk, S, k \div 2)
         IN  IF T = S THEN S ELSE Within(lk, T, k - (k \div 2))

DeclaringWithin(st, lk, method_name, start, k) ==
    {v \in Within(lk, {start}, k) : HasMethod(st, v, method_name)}

\* The least number of links from start to a declaring object, NoObj when
\* no object start reaches declares the method.
NearestFrom(st, lk, method_name, start) ==
    LET n == Cardinality(DOMAIN lk)
    IN  IF DeclaringWithin(st, lk, method_name, start, n) = {} THEN NoObj
        ELSE CHOOSE k \in 0..n :
               /\ DeclaringWithin(st, lk, method_name, start, k) # {}
               /\ k = 0 \/ DeclaringWithin(st, lk, method_name, start, k - 1) = {}

\* C6: the object resolution returns is a declaring object at the least
\* number of links from the start: no declaring object is strictly nearer.
ResolvesToNearest ==
    \A r \in ReqIds :
       reqs[r].pc = "executing"
       => /\ HasMethod(store, reqs[r].found, reqs[r].method)
          /\ reqs[r].found \in
               Within(links, {reqs[r].target},
                      NearestFrom(store, links, reqs[r].method, reqs[r].target))

\* C7: resolution ends on every graph, cyclic ones included, and it reports
\* no result exactly when no object within MaxDepth links of the start
\* declares the method (none at all, or only farther ones).
NotFoundBeyondMaxDepth ==
    \A r \in ReqIds :
       reqs[r].pc \in {"executing", "generating"}
       => ( reqs[r].pc = "generating"
            <=> DeclaringWithin(store, links, reqs[r].method, reqs[r].target, MaxDepth) = {} )

NotFoundOnLongCycle ==
    \E r \in ReqIds :
       /\ reqs[r].pc = "generating"
       /\ reqs[r].found = NoObj
       /\ HasMethod(store, reqs[r].target + MaxDepth + 1, reqs[r].method)
       /\ reqs[r].target + MaxDepth + 1 \in Within(links, {reqs[r].target}, MaxDepth + 1)
       /\ reqs[r].target \in Within(links, {reqs[r].target + MaxDepth + 1}, ChainExtra)

\* C8: a step of a dispatch that resolved its method on an ancestor of its
\* target leaves the target's document (attributes and methods) as it was.
DelegatedDispatchLeavesTarget ==
    [][\A r \in ReqIds :
         ( /\ reqs[r].found \notin {NoObj, reqs[r].target}
           /\ reqs[r].target \in DOMAIN store
           /\ reqs'[r] # reqs[r] )
         => store'[reqs[r].target] = store[reqs[r].target]]_vars

\* C9: a response without error reports state_changed exactly when the
\* final attribute mapping differs from the snapshot the sandbox was given.
ChangeReportedByValue ==
    \A r \in ReqIds :
       reqs[r].result.error = "none"
       => ( reqs[r].result.state_changed
            <=> reqs[r].result.final_state # reqs[r].object_state )

\* C10: when a dispatch returns from writing its mutation, the declaring
\* object read back from the store has exactly the attributes the sandbox
\* reported as final.
PersistedEqualsReported ==
    [][\A r \in ReqIds :
         (reqs[r].pc = "persisting" /\ reqs'[r].pc = "done")
         => get_object(orchestrator'.db, store', reqs[r].found)["attributes"] = reqs[r].result.final_state]_vars

\* C11: two dispatches of an incrementing method on one object are not
\* serialized: whenever both have returned success after reading the same
\* snapshot and computing the same incremented counter, both report
\* state_changed and the stored counter is the snapshot's plus one, one
\* increment being lost.  (The store genesis leaves holds no n, which the
\* body reads as n = 0.)
ConcurrentIncrementsLoseOne ==
    \A r1, r2 \in ReqIds :
       ( /\ r1 # r2
         /\ \A r \in {r1, r2} :
              /\ reqs[r].pc = "done"
              /\ reqs[r].outcome.kind = "ok"
              /\ reqs[r].sent = "inc"
              /\ reqs[r].found = system
         /\ reqs[r1].object_state = reqs[r2].object_state )
       => /\ reqs[r1].outcome.state_changed /\ reqs[r2].outcome.state_changed
          /\ reqs[r1].result.final_state = reqs[r2].result.final_state
          /\ reqs[r1].result.final_state
               = Put(reqs[r1].object_state, "n", Get(reqs[r1].object_state, "n", 0) + 1)
          /\ get_object(orchestrator.db, store, system)["attributes"]
               = reqs[r1].result.final_state

BothIncrementsReturned ==
    /\ \A r \in ReqIds :
         /\ reqs[r].pc = "done"
         /\ reqs[r].outcome = Outcome("ok", "none", TRUE, "")
         /\ reqs[r].sent = "inc"
         /\ reqs[r].found = system
         /\ Get(reqs[r].object_state, "n", 0) = 0
         /\ reqs[r].result.final_state = MapOf("n", 1)
    /\ get_object(orchestrator.db, store, system)["attributes"] = MapOf("n", 1)

\* C12: a dispatch that leaves the await of the write of its mutated
\* attributes either has written them and returns success, or returns a
\* failure with nothing of its write in the store; it never goes on to
\* generate a method.
PersistFailureIsTerminal ==
    [][\A r \in ReqIds :
         (reqs[r].pc = "persisting" /\ reqs'[r].pc # "persisting")
         => /\ reqs'[r].pc = "done"
            /\ store' = store
            /\ \/ reqs'[r].outcome.kind = "ok" /\ reqs[r].reply = Written
               \/ reqs'[r].outcome.kind = "error" /\ reqs[r].reply = NoReply]_vars

\* C13: a dispatch whose post to the sandbox got no answer (unreachable,
\* HTTP error status, timeout) returns a failure; it does not go on to
\* generate a method.
TransportFailureIsTerminal ==
    [][\A r \in ReqIds :
         ( /\ reqs[r].pc = "executing"
           /\ reqs'[r].pc # "executing"
           /\ reqs'[r].result = NoResponse )
         => /\ reqs'[r].pc = "done"
            /\ reqs'[r].outcome.kind = "error"]_vars

\* C14: when the generator returns no code, that step ends the dispatch with
\* the outcome "Code generation failed": nothing is written to the store,
\* nothing is posted to the sandbox, install_method is not awaited, and the
\* dispatch, having returned, takes no further step (the generator is not
\* called again).
GenerationFailureIsTerminal ==
    [][\A r \in ReqIds :
         /\ ( /\ reqs[r].pc = "generating"
              /\ reqs'[r] # reqs[r]
              /\ reqs'[r].generated_code = "" )
            => /\ reqs'[r].pc = "done"
               /\ reqs'[r].outcome.kind = "error"
               /\ reqs'[r].outcome.error = "Code generation failed"
               /\ reqs'[r].sent = reqs[r].sent
               /\ store' = store
         /\ ( reqs[r].pc = "done" /\ reqs[r].outcome.error = "Code generation failed" )
            => reqs'[r] = reqs[r]]_vars

GenerationFailureReached ==
    \E r \in ReqIds :
       /\ reqs[r].pc = "done"
       /\ reqs[r].generated_code = ""
       /\ reqs[r].outcome = Failure("Code generation failed")
       /\ reqs[r].sent = ""
       /\ ~HasMethod(store, reqs[r].target, reqs[r].method)

\* C15: a successful installation (the update of a request awaiting
\* install_method applied by the store, and the step from there to the
\* re-issued message) puts the generated code under the method name in the
\* target's own methods and changes nothing else: the target's other methods
\* and its attributes, every other object and every link stay.
InstallationTouchesOnlyTargetMethod ==
    [][\A r \in ReqIds :
         /\ (reqs[r].pc = "installing" /\ reqs'[r].pc = "resolving")
            => /\ reqs[r].reply = Written
               /\ store' = store
               /\ links' = links
               /\ HasMethod(store, reqs[r].target, reqs[r].method)
         /\ (reqs[r].pc = "installing" /\ reqs'[r].reply = Written /\ reqs[r].reply = NoReply)
         => LET t == reqs[r].target
                m == reqs[r].method
            IN  /\ links' = links
                /\ DOMAIN store' = DOMAIN store
                /\ \A o \in DOMAIN store \ {t} : store'[o] = store[o]
                /\ store'[t].attributes = store[t].attributes
                /\ DOMAIN store'[t].methods = DOMAIN store[t].methods \cup {m}
                /\ store'[t].methods[m] = reqs[r].generated_code
                /\ \A x \in DOMAIN store[t].methods \ {m} :
                     store'[t].methods[x] = store[t].methods[x]]_vars

InstalledBesideOtherMethod ==
    \E r \in ReqIds :
       /\ reqs[r].reissued
       /\ reqs[r].target = system
       /\ reqs[r].method = "greet"
       /\ DOMAIN store[system].methods = {"bump", "greet"}
       /\ store[system].methods["greet"] = "greet"
       /\ store[system].methods["bump"] \in GenBodies \ {""}
       /\ ~HasMethod(store, nil, "greet")

\* C16: a dispatch that leaves the await of install_method either re-issues
\* the message, the store having applied its update, or returns "Method
\* installation failed" with nothing posted to the sandbox and with its
\* update not applied, so that the target's methods are as they were when it
\* began to await; when the target has no document it is the latter; and
\* having returned so, it takes no further step.
InstallFailureIsTerminal ==
    [][\A r \in ReqIds :
         /\ (reqs[r].pc = "installing" /\ reqs'[r].pc # "installing")
            => LET installed ==
                     /\ reqs[r].reply = Written
                     /\ reqs'[r].pc = "resolving"
                     /\ HasMethod(store, reqs[r].target, reqs[r].method)
                   failed ==
                     /\ reqs[r].reply = NoReply
                     /\ reqs'[r].pc = "done"
                     /\ reqs'[r].outcome.kind = "error"
                     /\ reqs'[r].outcome.error = "Method installation failed"
                     /\ reqs'[r].sent = reqs[r].sent
               IN  /\ installed \/ failed
                   /\ store' = store
                   /\ reqs[r].target \notin DOMAIN store => failed
         /\ ( reqs[r].pc = "done" /\ reqs[r].outcome.error = "Method installation failed" )
            => reqs'[r] = reqs[r]]_vars

\* C17: the steps of a dispatch whose method nobody declares and for which
\* the generator returns the greeting body come in one order.  The first
\* resolution (the query and the return from it) misses with nothing posted
\* to the sandbox; generation passes the audit and writes nothing;
\* installation puts the body on the target and then re-issues the message,
\* still with nothing posted; the re-issued resolution finds the method on
\* the target itself; the sandbox runs the body once, the one post of the
\* dispatch, and the dispatch returns success with the body's output and
\* state_changed false.  Nothing is posted outside that step, and a
\* dispatch that has returned takes no further step.  (The re-issued
\* message is the second process_message call of the request.)
MissGenerateInstallThenExecute ==
    [][\A r \in ReqIds :
         LET req == reqs[r]
             nxt == reqs'[r]
             asked == req.reply = NoReply
         IN  nxt # req =>
             /\ ( /\ req.pc = "resolving" /\ ~req.reissued
                  /\ DeclaringWithin(store, links, req.method, req.target, MaxDepth) = {} )
                => /\ nxt.sent = "" /\ store' = store
                   /\ IF asked
                      THEN nxt.pc = "resolving" /\ nxt.reply = Rows(store, req.method, NoObj)
                      ELSE nxt.pc = "generating"
             /\ ( /\ req.pc = "generating" /\ req.sent = "" /\ ~req.reissued
                  /\ nxt.generated_code = "greet" )
                => nxt.pc = "installing" /\ nxt.sent = "" /\ store' = store
             /\ ( /\ req.pc = "installing" /\ req.sent = "" /\ ~req.reissued
                  /\ req.generated_code = "greet" /\ nxt.pc # "done" )
                => /\ nxt.sent = ""
                   /\ HasMethod(store', req.target, req.method)
                   /\ store'[req.target].methods[req.method] = "greet"
                   /\ IF asked
                      THEN nxt.pc = "installing" /\ nxt.reply = Written
                      ELSE nxt.pc = "resolving" /\ nxt.nesting = 2 /\ store' = store
             /\ ( /\ req.pc = "resolving" /\ req.nesting = 2
                  /\ HasMethod(store, req.target, req.method) )
                => /\ nxt.sent = "" /\ store' = store
                   /\ IF asked
                      THEN /\ nxt.pc = "resolving"
                           /\ nxt.reply = Rows(store, req.method, req.target)
                      ELSE /\ nxt.pc = "executing" /\ nxt.found = req.target
                           /\ nxt.code = store[req.target].methods[req.method]
             /\ ( /\ req.pc = "executing" /\ req.nesting = 2
                  /\ req.code = "greet" /\ req.found = req.target )
                => /\ store' = store
                   /\ IF asked
                      THEN /\ nxt.pc = "executing" /\ nxt.sent = ""
                           /\ nxt.reply.result_data.output = "hello"
                      ELSE /\ nxt.pc = "done" /\ nxt.sent = "greet"
                           /\ nxt.outcome = Outcome("ok", "hello", FALSE, "")
             /\ nxt.sent # req.sent => req.pc = "executing" \/ nxt.sent = ""
             /\ req.pc # "done"]_vars

GreetingGeneratedAndReturned ==
    /\ reqs["r1"].pc = "done"
    /\ reqs["r1"].nesting = 2
    /\ reqs["r1"].target = system
    /\ reqs["r1"].method = "greet"
    /\ reqs["r1"].found = system
    /\ reqs["r1"].sent = "greet"
    /\ reqs["r1"].outcome = Outcome("ok", "hello", FALSE, "")
    /\ store[system].methods["greet"] = "greet"
    /\ ~HasMethod(store, nil, "greet")

\* C18: when the only dispatch there has been returns "Security audit
\* failed" or "Code generation failed", the store is as genesis left it:
\* every object's attributes and methods, and every link.
RejectedDispatchLeavesStore ==
    \A r \in ReqIds :
       ( /\ reqs[r].pc = "done"
         /\ reqs[r].outcome.error \in {"Security audit failed", "Code generation failed"} )
       => /\ links = GenesisLinks
          /\ store = GenesisStore

\* The statements that are an import or a from-import, a deletion, and a
\* reference to a name or an attribute that is on the denylist.
ImportStmts == {"import", "from"}

DeleteStmts == {"del_k"}

DeniedReferenceStmts == {"open", "eval", "sock", "imp"}

MustFailAudit(b) ==
    \/ ~Bodies[b].parses
    \/ \E i \in 1..Len(Bodies[b].stmts) :
          Bodies[b].stmts[i] \in ImportStmts \cup DeleteStmts \cup DeniedReferenceStmts

\* C19: audit returns, and it fails exactly the bodies that do not parse or
\* that hold an import, a from-import, a deletion or a reference to a
\* denylisted name or attribute, passing every other body; so a dispatch
\* awaits install_method only with a body of the second kind, and a dispatch
\* ended by the audit returns "Security audit failed", for a body of the
\* first kind.
AuditFailsExactlyDenied ==
    \A r \in ReqIds :
         /\ reqs[r].generated_code # ""
            => /\ ~auditRaises(reqs[r].generated_code, reqs[r].nesting)
               /\ audit(reqs[r].generated_code) <=> ~MustFailAudit(reqs[r].generated_code)
         /\ reqs[r].pc = "installing" => ~MustFailAudit(reqs[r].generated_code)
         /\ ( reqs[r].pc = "done" /\ reqs[r].generated_code # "" )
            => /\ MustFailAudit(reqs[r].generated_code)
               /\ reqs[r].outcome = Failure("Security audit failed")

\* The identifiers of the bodies that start and end with two underscores.
DunderNames == {"__class__", "__name__", "__import__"}

ReferencesDunderAttribute(b) ==
    \E node \in AstNodes(b) : node.type = "Attribute" /\ node.id \in DunderNames

\* C20: no body that accesses a dunder attribute passes the audit: a
\* dispatch never awaits install_method with such a body.
DunderAttributeNeverPasses ==
    \A r \in ReqIds :
       ( /\ reqs[r].generated_code # ""
         /\ Bodies[reqs[r].generated_code].parses
         /\ ReferencesDunderAttribute(reqs[r].generated_code) )
       => reqs[r].pc # "installing" /\ ~audit(reqs[r].generated_code)

\* A request on whose generated body the audit has been called, and how the
\* call ended: it returned True, it returned False, or it raised.
Audited(req) ==
    /\ req.generated_code # ""
    /\ req.pc \in {"installing", "done"}

Verdict(req) ==
    CASE req.outcome = Failure("Security audit failed") -> "failed"
      [] req.outcome.kind = "raised" -> "raised"
      [] OTHER -> "passed"

\* C21: the audit's verdict depends on the body alone: the step that audits
\* a body ends as every earlier audit of the same body ended, those of the
\* enclosing calls of the request (which passed, their bodies having been
\* installed) and those of the other requests, whatever was dispatched,
\* written or installed in between; and that step leaves every object,
\* every link, the orchestrator, the sandbox and every other request as
\* they were and posts nothing to the sandbox.
AuditIsPureAndStatic ==
    [][\A r \in ReqIds :
         ( /\ reqs[r].pc = "generating"
           /\ reqs'[r] # reqs[r]
           /\ Audited(reqs'[r]) )
         => /\ \A q \in ReqIds :
                 \A i \in 1..Len(reqs[q].outer) :
                    reqs[q].outer[i].generated_code = reqs'[r].generated_code
                    => Verdict(reqs'[r]) = "passed"
            /\ \A q \in ReqIds \ {r} :
                 ( Audited(reqs[q])
                   /\ reqs[q].generated_code = reqs'[r].generated_code )
                 => Verdict(reqs'[r]) = Verdict(reqs[q])
            /\ store' = store
            /\ links' = links
            /\ orchestrator' = orchestrator
            /\ sandbox_class' = sandbox_class
            /\ \A q \in ReqIds \ {r} : reqs'[q] = reqs[q]
            /\ reqs'[r].sent = reqs[r].sent
            /\ reqs'[r].result = reqs[r].result]_vars

\* C22: nil declares no method, in every reachable state.
NilDeclaresNoMethod == get_object(orchestrator.db, store, nil)["methods"] = EmptyMap

(***************************************************************************)
(* The live-state channel.  SynapticHub.publish_state_update sends one     *)
(* event on the PUB socket when the hub has been started.  The             *)
(* Orchestrator holds a db_client, a cognitive_engine, a security_guardian *)
(* and an http_client and no hub; process_message, on a result, prints and *)
(* returns {"output", "state_changed"}, and on None returns what           *)
(* does_not_understand returns.                                            *)
(***************************************************************************)
publish_state_update(pub_socket, state) ==
    IF pub_socket THEN <<[event |-> "uvm_state_update", state |-> state]>> ELSE <<>>

\* The events a process_message call has handed to publish_state_update by
\* the time it returns: it makes no such call on any of its paths.
Published(req) == <<>>

\* C23: a dispatch that has returned has published exactly one event, the
\* document of the object it wrote, when it succeeded with state_changed
\* true, and has published nothing otherwise.
MutationIsPublished ==
    \A r \in ReqIds :
       reqs[r].pc = "done"
       => IF reqs[r].outcome.kind = "ok" /\ reqs[r].outcome.state_changed
          THEN /\ Len(Published(reqs[r])) = 1
               /\ Published(reqs[r])[1].state.attributes = reqs[r].result.final_state
          ELSE Published(reqs[r]) = publish_state_update(FALSE, EmptyMap)

\* C24: no step adds or removes an object or a link.  A step that changes an
\* object's document is either the attribute write of a request awaiting it
\* that resolved its method on that object, which still declares it, and
\* leaves the object's methods alone, or the installation by a request
\* awaiting install_method whose target the object is, which leaves the
\* object's attributes alone.  The method names of every object only grow.
StoreChangesByWriteOrInstallOnly ==
    [][/\ links' = links
       /\ DOMAIN store' = DOMAIN store
       /\ \A o \in DOMAIN store :
            /\ DOMAIN store[o].methods \subseteq DOMAIN store'[o].methods
            /\ store'[o] # store[o]
               => \E r \in ReqIds :
                     \/ /\ reqs[r].pc = "persisting"
                        /\ reqs[r].found = o
                        /\ HasMethod(store, o, reqs[r].method)
                        /\ store'[o].methods = store[o].methods
                        /\ store'[o].attributes =
                             MergeObjects(store[o].attributes, reqs[r].result.final_state)
                        /\ reqs[r].reply = NoReply
                        /\ reqs'[r] = [reqs[r] EXCEPT !.reply = Written]
                     \/ /\ reqs[r].pc = "installing"
                        /\ reqs[r].target = o
                        /\ store'[o].attributes = store[o].attributes
                        /\ store'[o].methods =
                             MergeObjects(store[o].methods,
                                          MapOf(reqs[r].method, reqs[r].generated_code))
                        /\ reqs[r].reply = NoReply
                        /\ reqs'[r] = [reqs[r] EXCEPT !.reply = Written]]_vars

\* Both kinds of change have happened: system got the method bump and its
\* counter was written, and nil got a method of its own, beside the same
\* objects and links.
WrittenAndInstalled ==
    /\ store[system] = Doc(MapOf("n", 1), MapOf("bump", "inc"))
    /\ store[nil] = Doc(EmptyMap, MapOf("greet", "greet"))
    /\ DOMAIN store = {nil, system}
    /\ links = GenesisLinks
    /\ \A r \in ReqIds : reqs[r].pc = "done"

\* A body that, run on object_state, changes the attribute mapping and then
\* raises.
RaisesAfterModifying(code, object_state) ==
    /\ code \in BodyNames
    /\ Bodies[code].parses /\ Bodies[code].callable
    /\ LET sandbox_self == RunStmts(Bodies[code].stmts, 1, SandboxObject(object_state))
       IN  sandbox_self.raised /\ sandbox_self.attributes # object_state

\* C25: when the body posted to the sandbox raises after changing the
\* attributes, the response is the failure (an error, no output,
\* state_changed false) whose final state is the snapshot that was posted;
\* the dispatch does not go on to the attribute write and the stored
\* attributes are still that snapshot.
RaisingBodyFailsWithSnapshot ==
    \A r \in ReqIds :
       RaisesAfterModifying(reqs[r].sent, reqs[r].object_state)
       => /\ reqs[r].result = Response("none", FALSE, reqs[r].object_state, "error")
          /\ reqs[r].pc # "persisting"
          /\ get_object(orchestrator.db, store, reqs[r].found)["attributes"] = reqs[r].object_state

\* C26: when the sandbox answers a dispatch without error and with
\* state_changed false, that step returns the dispatch with the response's
\* output and state_changed false, without an attribute write: the store and
\* the links are after the step what they were before, as they are across
\* the resolution step, and the dispatch, having returned, takes no further
\* step.
UnchangedDispatchWritesNothing ==
    [][\A r \in ReqIds :
         /\ ( /\ reqs[r].pc = "executing"
              /\ reqs'[r] # reqs[r]
              /\ reqs'[r].result.error = "none"
              /\ ~reqs'[r].result.state_changed )
            => /\ reqs'[r].pc = "done"
               /\ reqs'[r].outcome = Outcome("ok", reqs'[r].result.output, FALSE, "")
               /\ store' = store
               /\ links' = links
         /\ (reqs[r].pc = "resolving" /\ reqs'[r] # reqs[r])
            => store' = store /\ links' = links
         /\ (reqs[r].pc = "done" /\ reqs[r].outcome.kind = "ok")
            => reqs'[r] = reqs[r]]_vars

\* A body that incremented the counter in the sandbox without reporting it
\* has returned: the store still holds the snapshot.
UnreportedChangeReturned ==
    \E r \in ReqIds :
       /\ reqs[r].pc = "done"
       /\ reqs[r].sent = "silent"
       /\ reqs[r].outcome = Outcome("ok", "none", FALSE, "")
       /\ reqs[r].object_state = MapOf("n", 1)
       /\ reqs[r].result.final_state = MapOf("n", 2)
       /\ get_object(orchestrator.db, store, reqs[r].found)["attributes"] = MapOf("n", 1)

\* The request a dispatch posted to the sandbox, when it got a response.
SandboxRequest(req) ==
    [code |-> req.sent, method_name |-> req.method, object_state |-> req.object_state]

\* C27: the sandbox's response is a function of the request: two dispatches
\* that posted equal requests (code, method name, attribute snapshot) and
\* got a response got equal responses.
ResponseIsFunctionOfRequest ==
    \A r1, r2 \in ReqIds :
       ( /\ reqs[r1].result # NoResponse
         /\ reqs[r2].result # NoResponse
         /\ SandboxRequest(reqs[r1]) = SandboxRequest(reqs[r2]) )
       => reqs[r1].result = reqs[r2].result

\* A dispatch whose installation the store has applied, and one no call of
\* which can have written attributes: every enclosing call missed, and the
\* present one has had no state change reported or still awaits the write.
Installed(req) ==
    \/ req.reissued
    \/ req.pc = "installing" /\ req.reply = Written

WroteNothing(req) ==
    /\ \A i \in 1..Len(req.outer) : req.outer[i].found = NoObj
    /\ \/ ~req.result.state_changed
       \/ req.pc = "executing"
       \/ req.pc = "persisting" /\ req.reply = NoReply

\* C28: when one dispatch has returned from writing attributes to an object
\* and another's installation on the same object has been applied (and it
\* has written no attributes itself), in whatever order the two writes
\* reached the store, the object holds the installed method, the method the
\* first dispatch resolved on it (which it held before both writes), and
\* every attribute the first dispatch wrote with the value written.
InstallAndWriteBothKept ==
    \A r1, r2 \in ReqIds :
       ( /\ r1 # r2
         /\ reqs[r1].pc = "done"
         /\ reqs[r1].outcome.kind = "ok"
         /\ reqs[r1].outcome.state_changed
         /\ Installed(reqs[r2])
         /\ reqs[r2].target = reqs[r1].found
         /\ WroteNothing(reqs[r2]) )
       => LET T == reqs[r1].found
          IN  /\ HasMethod(store, T, reqs[r2].method)
              /\ HasMethod(store, T, reqs[r1].method)
              /\ \A k \in DOMAIN reqs[r1].result.final_state :
                   /\ k \in DOMAIN store[T].attributes
                   /\ store[T].attributes[k] = reqs[r1].result.final_state[k]

\* The counter of system written by one dispatch and greet installed on
\* system by the other, which had missed before the write.
InstalledAndWrittenOnSystem ==
    /\ reqs["r1"].pc = "done"
    /\ reqs["r1"].outcome = Outcome("ok", "none", TRUE, "")
    /\ reqs["r1"].found = system
    /\ reqs["r1"].result.final_state = MapOf("n", 1)
    /\ Installed(reqs["r2"])
    /\ reqs["r2"].target = system
    /\ reqs["r2"].method = "greet"
    /\ reqs["r2"].generated_code = "greet"
    /\ store[system] = Doc(MapOf("n", 1), [bump |-> "inc", greet |-> "greet"])

InstallOnlyOnTrueMiss ==
    [][\A r \in ReqIds :
         /\ ( /\ reqs[r].pc = "resolving"
              /\ reqs[r].reply = NoReply
              /\ reqs'[r].reply = Rows(store, reqs[r].method, NoObj) )
            => DeclaringWithin(store, links, reqs[r].method, reqs[r].target, MaxDepth) = {}
         /\ (reqs'[r].pc = "generating" /\ reqs[r].pc # "generating")
            => /\ reqs[r].pc = "resolving"
               /\ reqs[r].reply = Rows(store, reqs[r].method, NoObj)
         /\ (reqs[r].pc = "installing" /\ reqs'[r].reply = Written /\ reqs[r].reply = NoReply)
            => DeclaringWithin(store, links, reqs[r].method, reqs[r].target, MaxDepth) = {}]_vars

\* Two dispatches of one method to one target.
SamePair(req, rival) ==
    /\ req.target = rival.target
    /\ req.method = rival.method
    /\ req.target \in DOMAIN store

\* The first process_message call of a request: what it resolved and what it
\* generated; and a request whose first call missed.
FirstCall(req) == IF req.outer = <<>> THEN Suspended(req) ELSE req.outer[1]

Missed(req) ==
    /\ FirstCall(req).found = NoObj
    /\ \/ req.outer # <<>>
       \/ req.pc \in {"generating", "installing"}
       \/ req.pc = "done" /\ req.outcome.kind = "error"

\* A request that has installed at most what its first call generated.
InstalledOnce(req) ==
    /\ Len(req.outer) <= 1
    /\ Len(req.outer) = 1
       => \/ req.generated_code = ""
          \/ req.pc = "installing" /\ req.reply = NoReply

MissingTargetFailsAndCreatesNothing ==
    [][\A r \in ReqIds :
         ( /\ reqs[r].pc # "idle"
           /\ reqs[r].target \notin DOMAIN store
           /\ reqs'[r] # reqs[r] )
         => /\ store' = store
            /\ links' = links
            /\ reqs'[r].pc \in {"resolving", "generating", "installing", "done"}
            /\ reqs'[r].pc = "resolving"
               => reqs[r].pc = "resolving" /\ reqs'[r].reply.found = NoObj
            /\ reqs'[r].pc = "generating" => reqs[r].pc = "resolving"
            /\ reqs'[r].pc = "installing" => reqs[r].pc = "generating"
            /\ reqs'[r].sent = ""
            /\ reqs'[r].pc = "done" => reqs'[r].outcome.kind \in {"error", "raised"}]_vars

\* A dispatch to the key no document has, whose generated body passed the
\* audit, has returned; nothing was created.
MissingTargetReturned ==
    \E r \in ReqIds :
       /\ reqs[r].pc = "done"
       /\ reqs[r].target = other
       /\ reqs[r].generated_code = "greet"
       /\ reqs[r].outcome.kind = "error"
       /\ DOMAIN store = {nil, system}
       /\ DOMAIN links = {nil, system}
       /\ \A o \in DOMAIN store : "greet" \notin DOMAIN store[o].methods

\* C33: when the body posted to the sandbox defines no callable under the
\* method name, whatever its top-level statements did to self, the response
\* is the failure (an error, no output, state_changed false) whose final
\* state is the snapshot that was posted, and the step leaves the store and
\* the links as they are, the dispatch not going on to the attribute write.
NoCallableFailsWithSnapshot ==
    [][\A r \in ReqIds :
         ( /\ reqs[r].pc = "executing"
           /\ reqs'[r].pc # "executing"
           /\ reqs'[r].result # NoResponse
           /\ ~Bodies[reqs'[r].sent].callable )
         => /\ reqs'[r].result = Response("none", FALSE, reqs[r].object_state, "error")
            /\ reqs'[r].pc # "persisting"
            /\ store' = store
            /\ links' = links]_vars

\* A body whose top level incremented the counter and set the flag, and
\* defined nothing, was run on {n: 0}: the failure carries {n: 0} and system
\* still holds it.
TopLevelChangeDiscarded ==
    \E r \in ReqIds :
       /\ reqs[r].sent = "bare"
       /\ reqs[r].object_state = MapOf("n", 0)
       /\ reqs[r].result = Response("none", FALSE, MapOf("n", 0), "error")
       /\ get_object(orchestrator.db, store, system)["attributes"] = MapOf("n", 0)

\* C34: a process_message call made while the orchestrator is not
\* initialized (before initialize, or after shutdown) ends at once by
\* raising: it does not go on to the query, the sandbox, the generator or a
\* write.
ServedOnlyWhileInitialized ==
    [][\A r \in ReqIds :
         ( /\ reqs[r].pc = "idle"
           /\ reqs'[r].pc # "idle"
           /\ ~orchestrator.is_initialized )
         => /\ reqs'[r].pc = "done"
            /\ reqs'[r].outcome.kind = "raised"]_vars

\* C35: on a UvmObject, assigning a name that does not start with an
\* underscore and is not 'attributes' or 'methods' inserts it into the
\* attribute mapping and sets _p_changed; reading a name that normal lookup
\* does not find (no field of the instance, no member of the class) and that
\* is in neither the attribute mapping nor the method mapping raises
\* AttributeError; no read changes the attribute mapping or _p_changed.
AttributeProtocol ==
    [][ /\ ( /\ uvm'.last.op = "set"
             /\ uvm'.last.name \notin Underscored \cup {"attributes", "methods"} )
           => /\ uvm'.self["attributes"]
                    = Put(uvm.self["attributes"], uvm'.last.name, uvm'.last.value)
              /\ uvm'.self["_p_changed"] = TRUE
        /\ ( /\ uvm'.last.op = "get"
             /\ uvm'.last.name \notin DOMAIN uvm.self
             /\ uvm'.last.name \notin ClassMembers
             /\ uvm'.last.name \notin DOMAIN uvm.self["attributes"]
             /\ uvm'.last.name \notin DOMAIN uvm.self["methods"] )
           => uvm'.last.result = "AttributeError"
        /\ uvm'.last.op = "get"
           => /\ uvm'.self["attributes"] = uvm.self["attributes"]
              /\ uvm'.self["_p_changed"] = uvm.self["_p_changed"] ]_vars

\* C35 as stated: the same, with AttributeError raised by the read of any
\* name that is in neither the attribute mapping nor the method mapping.
AttributeProtocolAsStated ==
    [][ /\ ( /\ uvm'.last.op = "set"
             /\ uvm'.last.name \notin Underscored \cup {"attributes", "methods"} )
           => /\ uvm'.self["attributes"]
                    = Put(uvm.self["attributes"], uvm'.last.name, uvm'.last.value)
              /\ uvm'.self["_p_changed"] = TRUE
        /\ ( /\ uvm'.last.op = "get"
             /\ uvm'.last.name \notin DOMAIN uvm.self["attributes"]
             /\ uvm'.last.name \notin DOMAIN uvm.self["methods"] )
           => uvm'.last.result = "AttributeError"
        /\ uvm'.last.op = "get"
           => /\ uvm'.self["attributes"] = uvm.self["attributes"]
              /\ uvm'.self["_p_changed"] = uvm.self["_p_changed"] ]_vars

MissingReadOnChangedObject ==
    /\ uvm.last.op = "get"
    /\ uvm.last.name = "missing"
    /\ uvm.last.result = "AttributeError"
    /\ uvm.self["_p_changed"] = TRUE
    /\ "to_doc" \in DOMAIN uvm.self["attributes"]

\* C37: for every UvmObject with a key, UvmObject.from_doc(o.to_doc()) has
\* the key, the attribute mapping and the method mapping of o and a cleared
\* dirty flag; to_doc does not carry the stable id, which is absent (None)
\* after the round trip.
RoundTripKeepsContent ==
    [][ ( /\ uvm'.last.op = "from_doc"
          /\ uvm.self["_key"] # None )
        => /\ uvm'.self["_key"] = uvm.self["_key"]
           /\ uvm'.self["attributes"] = uvm.self["attributes"]
           /\ uvm'.self["methods"] = uvm.self["methods"]
           /\ uvm'.self["_p_changed"] = FALSE
           /\ "_id" \notin DOMAIN to_doc(uvm.self)
           /\ uvm'.self["_id"] = None ]_vars

ChangedObjectRoundTripped ==
    /\ uvm.last.op = "from_doc"
    /\ uvm.self["_key"] = "k1"
    /\ "missing" \in DOMAIN uvm.self["attributes"]
    /\ "greet" \in DOMAIN uvm.self["methods"]
    /\ uvm.self["_p_changed"] = FALSE

\* C36: the auditor and install_method are never given an empty or
\* whitespace-only body: a reply of the generator whose code is empty,
\* whitespace-only, not a string, or that is not the expected structured
\* response (the call raised, no mapping, no JSON object, no python_code)
\* becomes the empty result, and the dispatch ends as "Code generation
\* failed" with nothing audited and nothing installed.
UnusableReply(response) ==
    \/ response.raised
    \/ ~response.mapping
    \/ response.content # "json_object"
    \/ response.python_code # "string"
    \/ response.text = ""

EmptyCodeNeverAuditedOrInstalled ==
    [][ \A r \in ReqIds :
          /\ ( \/ reqs'[r].pc = "installing"
               \/ /\ reqs'[r].pc = "done"
                  /\ reqs'[r].outcome.error \in {"Security audit failed",
                                                 "Method installation failed"} )
             => reqs'[r].generated_code # ""
          /\ \A response \in LlmResponses :
                (GenerateCode(r, response) /\ UnusableReply(response))
                => /\ reqs'[r].generated_code = ""
                   /\ reqs'[r].pc = "done"
                   /\ reqs'[r].outcome = Failure("Code generation failed")
                   /\ store' = store ]_vars

BlankCodeFailedGeneration ==
    \E r \in ReqIds, rival \in ReqIds :
       /\ reqs[r].outcome = Failure("Code generation failed")
       /\ reqs[rival].pc = "installing"
       /\ reqs[rival].generated_code = "greet"

====
